---- MODULE Spec2Model ----
(***************************************************************************)
(* A model of roji (github.com/kan/roji): the routing table of the reverse *)
(* proxy (proxy.Router), the container observer that feeds it and the      *)
(* event consumer of cmd/roji.                                             *)
(*                                                                         *)
(* Strings the code computes on (hostnames, path prefixes, request paths)  *)
(* are sequences of byte values, so that strings.ToLower, strings.HasPrefix*)
(* len() and the < of sort.Slice are computed as the code computes them.   *)
(* Strings the code only copies and compares for equality (container ids,  *)
(* names, addresses) are TLA+ strings.                                     *)
(***************************************************************************)
EXTENDS Integers, Sequences, FiniteSets, TLC

VARIABLES
    routes,       \* Router.routes: map hostname -> *Route
    pathRoutes,   \* Router.pathRoutes: map hostname -> []*Route
    lastOp,       \* history: the Router call that produced this state
    mu,           \* Router.mu (sync.RWMutex): writer held, number of readers
    wpc,          \* the mutating goroutine's position inside a Router call
    wop,          \* the Router call the mutating goroutine is in
    wkeys,        \* keys its range loop has still to visit
    writes,       \* number of mutating calls started
    rpc,          \* a request goroutine's position inside Lookup/ListRoutes
    rresult,      \* what its last Lookup/ListRoutes returned
    committed,    \* history: the table when Router.mu was last unlocked
    containers,   \* the engine: the configuration of each container
    running,      \* the engine: containers running on the shared network
    eventCh,      \* container events emitted and not yet consumed
    changes,      \* number of container starts and stops so far
    hpc,          \* the event consumer's position (discoverExisting, handlers)
    hev,          \* the event it is handling
    hb,           \* backend: what GetBackend returned for that event
    todo,         \* backends: those of GetProjectBackends still to be added
    refreshPre,   \* history: the table when the project refresh began
    hpre,         \* history: the table, the engine and the watcher's stream when
                  \* the event was received
    handled,      \* history: the last event handled and how its handling ended
    served,       \* history: the last request served and what the dispatcher did
    files,        \* the certificate directory: the content of each file
    generator,    \* certgen.Generator: its baseDomain
    ensured,      \* history: the last EnsureCerts, the directory before it, its error
    ctx,          \* the process context: live, or cancelled by a shutdown signal
    hung,         \* the engine has stopped answering inspect and list calls
    stream,       \* the engine's event stream of the watcher's subscription
    msgCh,        \* messages the stream has delivered and the watcher not yet read
    wtpc,         \* the Watcher.Watch goroutine's position
    wtev,         \* the event it is handing to eventCh
    failures,     \* number of event stream failures so far
    seen,         \* history: the events the watcher made of the messages it read
    applied       \* history: the events the consumer received

routerVars == <<routes, pathRoutes>>
lockVars == <<mu, wpc, wop, wkeys, writes, rpc, rresult, committed>>
evVars == <<containers, running, eventCh, changes, hpc, hev, hb, todo, refreshPre, hpre,
            handled>>
certVars == <<files, generator, ensured>>
watchVars == <<ctx, hung, stream, msgCh, wtpc, wtev, failures, seen, applied>>
otherVars == <<evVars, served, certVars, watchVars>>
vars == <<routes, pathRoutes, lastOp, mu, wpc, wop, wkeys, writes, rpc, rresult,
          committed, containers, running, eventCh, changes, hpc, hev, hb, todo,
          refreshPre, hpre, handled, served, files, generator, ensured,
          ctx, hung, stream, msgCh, wtpc, wtev, failures, seen, applied>>

----------------------------------------------------------------------------
(* Bounds *)

\* AddBackend that would grow the table beyond MaxRoutes entries is not explored.
MaxRoutes == 3

\* Mutating Router calls made in the lock-level specification.
MaxWrites == 3

----------------------------------------------------------------------------
(* Strings *)

\* strings.ToLower on ASCII: 'A'..'Z' (65..90) map to 'a'..'z'.
ToLower(s) == [i \in 1..Len(s) |-> IF s[i] >= 65 /\ s[i] <= 90 THEN s[i] + 32 ELSE s[i]]

\* strings.HasPrefix
HasPrefix(s, prefix) ==
    /\ Len(prefix) <= Len(s)
    /\ SubSeq(s, 1, Len(prefix)) = prefix

\* Go's < on strings: bytewise lexicographic order.
StrLess(a, b) ==
    \E k \in 0..Len(a) :
        /\ k <= Len(b)
        /\ \A i \in 1..k : a[i] = b[i]
        /\ \/ k = Len(a) /\ k < Len(b)
           \/ k < Len(a) /\ k < Len(b) /\ a[k + 1] < b[k + 1]

\* unicode.IsSpace on ASCII: '\t', '\n', '\v', '\f', '\r', ' '.
IsSpace(c) == c \in {9, 10, 11, 12, 13, 32}

\* strings.TrimSpace
TrimSpace(s) ==
    LET inner == {i \in 1..Len(s) : ~IsSpace(s[i])}
    IN IF inner = {} THEN <<>>
       ELSE SubSeq(s, CHOOSE i \in inner : \A j \in inner : i <= j,
                      CHOOSE i \in inner : \A j \in inner : i >= j)

\* The value of a string of decimal digits.
RECURSIVE DigitsValue(_)
DigitsValue(s) ==
    IF s = <<>> THEN 0 ELSE 10 * DigitsValue(SubSeq(s, 1, Len(s) - 1)) + (s[Len(s)] - 48)

\* strconv.Atoi: an optional sign, then one or more decimal digits.  The
\* strings explored are short of the int range.
Atoi(s) ==
    LET signed == s # <<>> /\ s[1] \in {43, 45}
        digits == IF signed THEN Tail(s) ELSE s
        ok     == digits # <<>> /\ \A i \in 1..Len(digits) : digits[i] \in 48..57
    IN [err |-> ~ok,
        n   |-> IF ~ok THEN 0
                ELSE IF signed /\ s[1] = 45 THEN 0 - DigitsValue(digits)
                ELSE DigitsValue(digits)]

\* strings.Split(s, sep)[0] for a one-byte separator: s up to its first sep.
SplitFirst(s, sep) ==
    LET at == {i \in 1..Len(s) : s[i] = sep}
    IN IF at = {} THEN s ELSE SubSeq(s, 1, (CHOOSE i \in at : \A j \in at : i <= j) - 1)

\* "a", "A", "b", "B"
HostLowerA == <<97>>
HostUpperA == <<65>>
HostLowerB == <<98>>
HostUpperB == <<66>>

\* "", "/", "/a", "/ab", "/a/b", "/b"
PathEmpty == <<>>
PathRoot  == <<47>>
PathA     == <<47, 97>>
PathAB    == <<47, 97, 98>>
PathASubB == <<47, 97, 47, 98>>
PathB     == <<47, 98>>

\* Hostnames a backend may carry, in the letter case the label or resolver gave.
Hostnames == {HostUpperA, HostLowerB}
\* Path prefixes a backend may carry.
PathPrefixes == {PathEmpty, PathRoot, PathA}
\* Hostnames and paths of incoming lookups.
LookupHosts == {HostLowerA, HostUpperA, HostLowerB, HostUpperB}
LookupPaths == {PathRoot, PathA, PathAB, PathASubB, PathB}

----------------------------------------------------------------------------
(* docker.Backend *)

ContainerIDs == {"c1", "c2", "c3"}

\* Names that the resolver joins into hostnames are byte strings:
\* "p", "w", "a", "s", "p-w", "p-a".
NameP  == <<112>>
NameW  == <<119>>
NameA  == <<97>>
NameS  == <<115>>
NamePW == <<112, 45, 119>>
NamePA == <<112, 45, 97>>

ProjectNames == {NameP, <<>>}

\* The containers behind the backends: c1 and c2 are two services of compose
\* project p, c3 is a standalone container.
ContainerInfo(id) ==
    CASE id = "c1" -> [ContainerName |-> NamePW, ServiceName |-> NameW,
                       ProjectName |-> NameP, Host |-> "10.0.0.1", Port |-> 80]
      [] id = "c2" -> [ContainerName |-> NamePA, ServiceName |-> NameA,
                       ProjectName |-> NameP, Host |-> "10.0.0.2", Port |-> 3000]
      [] OTHER     -> [ContainerName |-> NameS, ServiceName |-> <<>>,
                       ProjectName |-> <<>>, Host |-> "10.0.0.3", Port |-> 8080]

Backend(id, hostname, prefix) ==
    [ContainerID   |-> id,
     ContainerName |-> ContainerInfo(id).ContainerName,
     ServiceName   |-> ContainerInfo(id).ServiceName,
     ProjectName   |-> ContainerInfo(id).ProjectName,
     Host          |-> ContainerInfo(id).Host,
     Port          |-> ContainerInfo(id).Port,
     Hostname      |-> hostname,
     PathPrefix    |-> prefix]

Backends == {Backend(id, h, p) : id \in ContainerIDs, h \in Hostnames, p \in PathPrefixes}

----------------------------------------------------------------------------
(* proxy.Route and the two indices of proxy.Router *)

Route(hostname, backend) ==
    [Hostname |-> hostname, PathPrefix |-> backend.PathPrefix, Backend |-> backend]

\* A Go map read: the zero value (nil slice) for a missing key.
PathList(prs, hostname) == IF hostname \in DOMAIN prs THEN prs[hostname] ELSE <<>>

MapPut(m, k, v) == [x \in DOMAIN m \cup {k} |-> IF x = k THEN v ELSE m[x]]

MapDelete(m, ks) == [x \in DOMAIN m \ ks |-> m[x]]

\* (a slip: the comparison of the sort turned around)
SortedByPrefixLenAsc(s) ==
    \A i \in 1..Len(s) - 1 : Len(s[i].PathPrefix) <= Len(s[i + 1].PathPrefix)

\* sort.Slice by len(PathPrefix) descending.  sort.Slice is not stable: every
\* arrangement of the appended list that satisfies the order is an outcome.
SortedByPrefixLenDesc(s) ==
    \A i \in 1..Len(s) - 1 : Len(s[i].PathPrefix) >= Len(s[i + 1].PathPrefix)

Arrangements(s) ==
    {[i \in 1..Len(s) |-> s[f[i]]] : f \in Permutations(1..Len(s))}

SortSlicePrefixLenDesc(s) == {t \in Arrangements(s) : SortedByPrefixLenDesc(t)}

NumRoutes(rs, prs) ==
    LET RECURSIVE Sum(_)
        Sum(S) == IF S = {} THEN 0
                  ELSE LET h == CHOOSE x \in S : TRUE IN Len(prs[h]) + Sum(S \ {h})
    IN Cardinality(DOMAIN rs) + Sum(DOMAIN prs)

----------------------------------------------------------------------------
(* Router operations.  Each runs with r.mu held for its whole body, so it  *)
(* is one step of the table.                                               *)

\* (a slip: the hostname stored as given, not lowercased)
AddBackendVerbatimHost(rs, prs, backend) ==
    LET hostname == backend.Hostname
        route    == Route(hostname, backend)
    IN IF backend.PathPrefix # <<>>
       THEN {<<rs, MapPut(prs, hostname, s)>> :
                s \in SortSlicePrefixLenDesc(Append(PathList(prs, hostname), route))}
       ELSE {<<MapPut(rs, hostname, route), prs>>}

\* Router.AddBackend: the tables it can leave, as <<routes, pathRoutes>>.
AddBackendResults(rs, prs, backend) ==
    LET hostname == ToLower(backend.Hostname)
        route    == Route(hostname, backend)
    IN IF backend.PathPrefix # <<>>
       THEN {<<rs, MapPut(prs, hostname, s)>> :
                s \in SortSlicePrefixLenDesc(Append(PathList(prs, hostname), route))}
       ELSE {<<MapPut(rs, hostname, route), prs>>}

\* (a slip: only the default-route index is scanned)
RemoveBackendDefaultOnly(rs, prs, containerID) ==
    <<MapDelete(rs, {h \in DOMAIN rs : rs[h].Backend.ContainerID = containerID}), prs>>

\* Router.RemoveBackend
RemoveBackendResult(rs, prs, containerID) ==
    LET keep(r) == r.Backend.ContainerID # containerID
        emptied == {h \in DOMAIN prs : SelectSeq(prs[h], keep) = <<>>}
    IN <<MapDelete(rs, {h \in DOMAIN rs : ~keep(rs[h])}),
         [h \in DOMAIN prs \ emptied |-> SelectSeq(prs[h], keep)]>>

\* (a slip: only the default-route index is scanned)
RemoveProjectDefaultOnly(rs, prs, projectName) ==
    <<MapDelete(rs, {h \in DOMAIN rs : rs[h].Backend.ProjectName = projectName}), prs>>

\* (a slip: a host's whole path list dropped when one of its routes matches)
RemoveProjectWholeHost(rs, prs, projectName) ==
    LET hit(h) == \E i \in 1..Len(prs[h]) : prs[h][i].Backend.ProjectName = projectName
    IN <<MapDelete(rs, {h \in DOMAIN rs : rs[h].Backend.ProjectName = projectName}),
         MapDelete(prs, {h \in DOMAIN prs : hit(h)})>>

\* Router.RemoveProject
RemoveProjectResult(rs, prs, projectName) ==
    LET keep(r) == r.Backend.ProjectName # projectName
        emptied == {h \in DOMAIN prs : SelectSeq(prs[h], keep) = <<>>}
    IN <<MapDelete(rs, {h \in DOMAIN rs : ~keep(rs[h])}),
         [h \in DOMAIN prs \ emptied |-> SelectSeq(prs[h], keep)]>>

\* A nil *Route (and the nil *Backend in it): what Lookup returns for no match.
NilBackend ==
    [ContainerID |-> "", ContainerName |-> <<>>, ServiceName |-> <<>>, ProjectName |-> <<>>,
     Host |-> "", Port |-> 0, Hostname |-> <<>>, PathPrefix |-> <<>>]

NoRoute == [Hostname |-> <<>>, PathPrefix |-> <<>>, Backend |-> NilBackend]

\* (a slip: the path compared for equality instead of by prefix)
RECURSIVE FirstMatchExact(_, _)
FirstMatchExact(s, path) ==
    IF s = <<>> THEN NoRoute
    ELSE IF path = Head(s).PathPrefix THEN Head(s)
    ELSE FirstMatchExact(Tail(s), path)

\* The first entry of a path list whose prefix is a prefix of path, or NoRoute.
RECURSIVE FirstMatch(_, _)
FirstMatch(s, path) ==
    IF s = <<>> THEN NoRoute
    ELSE IF HasPrefix(path, Head(s).PathPrefix) THEN Head(s)
    ELSE FirstMatch(Tail(s), path)

\* Router.Lookup
LookupIn(rs, prs, hostname, path) ==
    LET h == ToLower(hostname)
        m == FirstMatch(PathList(prs, h), path)
    IN IF m # NoRoute THEN m
       ELSE IF h \in DOMAIN rs THEN rs[h] ELSE NoRoute

Lookup(hostname, path) == LookupIn(routes, pathRoutes, hostname, path)

----------------------------------------------------------------------------
(* Reading the table *)

\* The route entries of hostname key h: the path list in order, then the
\* default route.  An entry is <<index, route>>; index 0 is the default route.
EntriesOf(rs, prs, h) ==
    {<<i, PathList(prs, h)[i]>> : i \in 1..Len(PathList(prs, h))}
        \cup (IF h \in DOMAIN rs THEN {<<0, rs[h]>>} ELSE {})

Keys(rs, prs) == DOMAIN rs \cup DOMAIN prs

\* Every route of the table, as <<key, index, route>>.
AllEntries(rs, prs) ==
    UNION {{<<h, e[1], e[2]>> : e \in EntriesOf(rs, prs, h)} : h \in Keys(rs, prs)}

TableEntries == AllEntries(routes, pathRoutes)

\* The entries of key h whose prefix is a prefix of path.
Matching(h, path) ==
    {e \in EntriesOf(routes, pathRoutes, h) : HasPrefix(path, e[2].PathPrefix)}

\* RouteInfo as ListRoutes fills it; Target is fmt.Sprintf("%s:%d", Host, Port).
RouteInfo(route) ==
    [Hostname      |-> route.Hostname,
     PathPrefix    |-> route.PathPrefix,
     Target        |-> <<route.Backend.Host, ":", route.Backend.Port>>,
     ContainerName |-> route.Backend.ContainerName,
     ServiceName   |-> route.Backend.ServiceName]

\* (a slip: the hostname left out of the comparison)
InfoLessPathOnly(a, b) == StrLess(a.PathPrefix, b.PathPrefix)

\* The less function of ListRoutes' sort.Slice.
InfoLess(a, b) ==
    IF a.Hostname # b.Hostname THEN StrLess(a.Hostname, b.Hostname)
    ELSE StrLess(a.PathPrefix, b.PathPrefix)

SortedInfos(s) == \A i \in 1..Len(s) - 1 : ~InfoLess(s[i + 1], s[i])

\* The RouteInfo values appended while ranging over both maps, in some order.
RECURSIVE InfosOf(_)
InfosOf(entries) ==
    IF entries = {} THEN <<>>
    ELSE LET e == CHOOSE x \in entries : TRUE
         IN <<RouteInfo(e[3])>> \o InfosOf(entries \ {e})

\* Router.ListRoutes: the slices it can return (Go ranges over maps in no
\* fixed order and sort.Slice is not stable).
ListRoutesResults(rs, prs) ==
    {t \in Arrangements(InfosOf(AllEntries(rs, prs))) : SortedInfos(t)}

----------------------------------------------------------------------------
(* The Router exercised through its API by arbitrary callers *)

RouterInit ==
    /\ routes = << >>
    /\ pathRoutes = << >>

InitOp == [op |-> "NewRouter"]

NoResult == [op |-> "none"]

\* sync.RWMutex, unlocked.
MuInit == [writer |-> FALSE, readers |-> 0]

LockIdle ==
    /\ mu = MuInit
    /\ wpc = "idle"
    /\ wop = InitOp
    /\ wkeys = {}
    /\ writes = 0
    /\ rpc = "idle"
    /\ rresult = NoResult
    /\ committed = <<routes, pathRoutes>>

\* strconv.Itoa for n >= 0
RECURSIVE Itoa(_)
Itoa(n) == IF n < 10 THEN <<48 + n>> ELSE Itoa(n \div 10) \o <<48 + (n % 10)>>

\* "/tcp", "true"
SlashTcp  == <<47, 116, 99, 112>>
TrueLabel == <<116, 114, 117, 101>>

\* The labels of a container the observer reads: com.docker.compose.project,
\* com.docker.compose.service, roji.self, roji.host, roji.port, roji.path.
\* Reading a label that is not set gives "", as reading a Go map does.
Labels(project, service, self, host, port, path) ==
    [project |-> project, service |-> service, self |-> self,
     host |-> host, port |-> port, path |-> path]

\* A container as the engine holds it: its name (with the leading "/" the
\* engine reports), its labels, the port specs of Config.ExposedPorts and of
\* NetworkSettings.Ports, whether it is attached to the shared network, and
\* the address it has there while it runs.
Container(name, labels, exposed, published, onNetwork, ip) ==
    [Name |-> <<47>> \o name, Labels |-> labels, ExposedPorts |-> exposed,
     Ports |-> published, OnNetwork |-> onNetwork, IPAddress |-> ip]

\* The containers of the router-level scenarios, plainly configured: compose
\* labels, one exposed port, no roji label.
DefaultContainers ==
    [id \in ContainerIDs |->
        Container(ContainerInfo(id).ContainerName,
                  Labels(ContainerInfo(id).ProjectName, ContainerInfo(id).ServiceName,
                         <<>>, <<>>, <<>>, <<>>),
                  {Itoa(ContainerInfo(id).Port) \o SlashTcp}, {}, TRUE,
                  ContainerInfo(id).Host)]

\* The zero docker.ContainerEvent.
NoEvent == [Type |-> "", ContainerID |-> ""]

----------------------------------------------------------------------------
(* certgen.Generator: the certificate directory and EnsureCerts *)

\* "localhost", "*.", "*.*."
Localhost      == <<108, 111, 99, 97, 108, 104, 111, 115, 116>>
StarDot        == <<42, 46>>
StarDotStarDot == <<42, 46, 42, 46>>

\* Generator.CertPaths and Generator.CACrtPath: the files of the directory.
CertPaths  == {"ca.pem", "ca-key.pem", "cert.pem", "key.pem"}
CACrtPath  == "ca.crt"
CertFiles  == CertPaths \cup {CACrtPath}

\* What a file holds: nothing (it does not exist); bytes that are no PEM
\* block; a PEM block; raw DER; or what an interrupted write left behind,
\* the file created or truncated with none or only part of its content.
Absent  == [kind |-> "absent"]
Bytes   == [kind |-> "bytes"]
Empty   == [kind |-> "empty"]
Partial == [kind |-> "partial"]
Pem(type, bytes) == [kind |-> "pem", Type |-> type, Bytes |-> bytes]
Der(bytes)       == [kind |-> "der", Bytes |-> bytes]

\* An ECDSA key, named by the number its generation drew; a certificate with
\* the key it certifies, the key that signed it, and its DNS names.
PrivateKey(id) == [D |-> id]
Certificate(subjectKey, issuerKey, isCA, dnsNames) ==
    [PublicKey |-> subjectKey, SignedBy |-> issuerKey, IsCA |-> isCA,
     DNSNames |-> dnsNames]

\* What rand.Reader gives to a key generation.
FreshCAKeys     == {"ca1", "ca2"}
FreshServerKeys == {"k1", "k2"}

\* (a slip: a file taken to exist only when it holds a PEM block)
fileExistsOnlyPem(fs, path) == fs[path].kind = "pem"

\* fileExists: os.Stat reports no error.
fileExists(fs, path) == fs[path].kind # "absent"

\* The step an EnsureCerts fails at, if it gets there, and how.  A write
\* fails at opening the file, or after the file was created or truncated
\* with none ("empty") or a part ("partial") of the content written.
SaveFailures == {"open", "empty", "partial"}
NoFailure    == [step |-> "none", how |-> "ok"]
FailPoints ==
    {NoFailure}
        \cup {[step |-> st, how |-> "error"] :
                st \in {"MkdirAll", "loadCA", "generateCA", "generateServerCert"}}
        \cup {[step |-> path, how |-> how] : path \in CertFiles, how \in SaveFailures}

\* How the write of path ends under the failure drawn.
HowSaved(fail, path) == IF fail.step = path THEN fail.how ELSE "ok"

\* os.OpenFile(O_WRONLY|O_CREATE|O_TRUNC) or os.WriteFile, then the write.
WriteFile(fs, path, content, how) ==
    CASE how = "ok"      -> [fs EXCEPT ![path] = content]
      [] how = "open"    -> fs
      [] how = "empty"   -> [fs EXCEPT ![path] = Empty]
      [] how = "partial" -> [fs EXCEPT ![path] = Partial]

saveCertificate(fs, path, cert, how) == WriteFile(fs, path, Pem("CERTIFICATE", cert), how)

saveCertificateDER(fs, path, cert, how) == WriteFile(fs, path, Der(cert), how)

savePrivateKey(fs, path, key, how) == WriteFile(fs, path, Pem("EC PRIVATE KEY", key), how)

\* loadCA: both files read and decoded; any other content is an error.
loadCA(fs, fail) ==
    IF fail.step = "loadCA"
    THEN [err |-> "failed to read certificate"]
    ELSE IF fs["ca.pem"].kind # "pem" \/ fs["ca.pem"].Type # "CERTIFICATE"
    THEN [err |-> "invalid certificate PEM"]
    ELSE IF fs["ca-key.pem"].kind # "pem" \/ fs["ca-key.pem"].Type # "EC PRIVATE KEY"
    THEN [err |-> "invalid private key PEM"]
    ELSE [err |-> "", cert |-> fs["ca.pem"].Bytes, key |-> fs["ca-key.pem"].Bytes]

\* Generator.generateCA: a fresh key and its self-signed certificate.
generateCA(id) ==
    [cert |-> Certificate(id, id, TRUE, <<>>), key |-> PrivateKey(id)]

\* Generator.generateServerCert: the DNS names of the certificate.
dnsNames(baseDomain) ==
    <<StarDot \o baseDomain, baseDomain, Localhost>>
        \o (IF baseDomain # Localhost THEN <<StarDotStarDot \o baseDomain>> ELSE <<>>)

\* (a slip: the certificate signed with its own key)
serverCertificateSelfSigned(id, caKey, baseDomain) ==
    Certificate(id, id, FALSE, dnsNames(baseDomain))

\* Generator.generateServerCert: the certificate of the fresh key, signed
\* with the CA key.
serverCertificate(id, caKey, baseDomain) ==
    Certificate(id, caKey.D, FALSE, dnsNames(baseDomain))

\* Generator.generateServerCert: a fresh key, its certificate signed with the
\* CA key, both saved.
generateServerCert(fs, baseDomain, caKey, fail, id) ==
    IF fail.step = "generateServerCert"
    THEN [files |-> fs, err |-> "failed to generate server certificate"]
    ELSE LET cert == serverCertificate(id, caKey, baseDomain)
             f1   == saveCertificate(fs, "cert.pem", cert, HowSaved(fail, "cert.pem"))
             f2   == savePrivateKey(f1, "key.pem", PrivateKey(id), HowSaved(fail, "key.pem"))
         IN IF HowSaved(fail, "cert.pem") # "ok"
            THEN [files |-> f1, err |-> "failed to save certificate"]
            ELSE IF HowSaved(fail, "key.pem") # "ok"
            THEN [files |-> f2, err |-> "failed to save key"]
            ELSE [files |-> f2, err |-> ""]

\* The new CA saved as ca.pem, ca-key.pem and ca.crt, then the server
\* certificate issued.
generateAndSaveCA(fs, baseDomain, fail, caId, id) ==
    IF fail.step = "generateCA"
    THEN [files |-> fs, err |-> "failed to generate CA"]
    ELSE LET ca == generateCA(caId)
             f1 == saveCertificate(fs, "ca.pem", ca.cert, HowSaved(fail, "ca.pem"))
             f2 == savePrivateKey(f1, "ca-key.pem", ca.key, HowSaved(fail, "ca-key.pem"))
             f3 == saveCertificateDER(f2, CACrtPath, ca.cert, HowSaved(fail, CACrtPath))
         IN IF HowSaved(fail, "ca.pem") # "ok"
            THEN [files |-> f1, err |-> "failed to save CA certificate"]
            ELSE IF HowSaved(fail, "ca-key.pem") # "ok"
            THEN [files |-> f2, err |-> "failed to save CA key"]
            ELSE IF HowSaved(fail, CACrtPath) # "ok"
            THEN [files |-> f3, err |-> "failed to save CA certificate (DER)"]
            ELSE generateServerCert(f3, baseDomain, ca.key, fail, id)

\* (a slip: a new CA generated whenever the CA pair is not complete)
ensureCAAlwaysComplete(fs, baseDomain, fail, caId, id) ==
    IF fileExists(fs, "ca.pem") /\ fileExists(fs, "ca-key.pem")
    THEN IF loadCA(fs, fail).err # ""
         THEN [files |-> fs, err |-> "failed to load existing CA"]
         ELSE generateServerCert(fs, baseDomain, loadCA(fs, fail).key, fail, id)
    ELSE generateAndSaveCA(fs, baseDomain, fail, caId, id)

\* Generator.EnsureCerts, "Check CA status": the CA loaded, generated, or
\* the error of a half-present one; then the server certificate.
ensureCA(fs, baseDomain, fail, caId, id) ==
    LET caCertExists == fileExists(fs, "ca.pem")
        caKeyExists  == fileExists(fs, "ca-key.pem")
    IN IF caCertExists /\ caKeyExists
       THEN IF loadCA(fs, fail).err # ""
            THEN [files |-> fs, err |-> "failed to load existing CA"]
            ELSE generateServerCert(fs, baseDomain, loadCA(fs, fail).key, fail, id)
       ELSE IF ~caCertExists /\ ~caKeyExists
       THEN generateAndSaveCA(fs, baseDomain, fail, caId, id)
       ELSE [files |-> fs, err |-> "incomplete CA setup"]

\* Generator.EnsureCerts: the directory afterwards and the error returned.
EnsureCertsResult(fs, baseDomain, fail, caId, id) ==
    LET serverCertExists == fileExists(fs, "cert.pem")
        serverKeyExists  == fileExists(fs, "key.pem")
    IN IF serverCertExists /\ serverKeyExists
       THEN [files |-> fs, err |-> ""]
       ELSE IF serverCertExists # serverKeyExists
       THEN [files |-> fs, err |-> "incomplete certificate setup"]
       ELSE IF fail.step = "MkdirAll"
       THEN [files |-> fs, err |-> "failed to create certs directory"]
       ELSE ensureCA(fs, baseDomain, fail, caId, id)

\* No EnsureCerts yet.
NotEnsured == [err |-> "none"]

\* An empty certificate directory, the generator of the default base domain.
NoFiles == [path \in CertFiles |-> Absent]
CertsOff ==
    /\ files = NoFiles
    /\ generator = [baseDomain |-> Localhost]
    /\ ensured = NotEnsured

\* No watcher started: no context cancelled, no subscription.
WatchOff ==
    /\ ctx = "live"
    /\ hung = FALSE
    /\ stream = "none"
    /\ msgCh = <<>>
    /\ wtpc = "off"
    /\ wtev = NoEvent
    /\ failures = 0
    /\ seen = <<>>
    /\ applied = <<>>

\* No request served yet.
NoRequest == [kind |-> "none"]

\* No event received; no event handled yet.
NoReceipt == [table |-> <<>>, changes |-> 0]
NoneHandled == [outcome |-> "none"]

\* The Router used on its own: no engine, no event consumer.
EventsOff ==
    /\ containers = DefaultContainers
    /\ running = {}
    /\ eventCh = <<>>
    /\ changes = 0
    /\ hpc = "off"
    /\ hev = NoEvent
    /\ hb = NilBackend
    /\ todo = <<>>
    /\ refreshPre = <<>>
    /\ hpre = NoReceipt
    /\ handled = NoneHandled
    /\ served = NoRequest
    /\ WatchOff

Init ==
    /\ RouterInit
    /\ lastOp = InitOp
    /\ LockIdle
    /\ EventsOff
    /\ CertsOff

\* Whether AddBackend(backend) adds an entry rather than overwriting one.
Grows(backend) ==
    backend.PathPrefix # <<>> \/ ToLower(backend.Hostname) \notin DOMAIN routes

AddBackend(backend) ==
    /\ Grows(backend) => NumRoutes(routes, pathRoutes) < MaxRoutes
    /\ \E t \in AddBackendResults(routes, pathRoutes, backend) :
        /\ routes' = t[1]
        /\ pathRoutes' = t[2]
    /\ UNCHANGED <<lockVars, otherVars>>
    /\ lastOp' = [op |-> "AddBackend", backend |-> backend]

RemoveBackend(containerID) ==
    /\ routes' = RemoveBackendResult(routes, pathRoutes, containerID)[1]
    /\ pathRoutes' = RemoveBackendResult(routes, pathRoutes, containerID)[2]
    /\ UNCHANGED <<lockVars, otherVars>>
    /\ lastOp' = [op |-> "RemoveBackend", id |-> containerID,
                  dropped |-> Cardinality({e \in TableEntries :
                                  e[3].Backend.ContainerID = containerID})]

RemoveProject(projectName) ==
    /\ routes' = RemoveProjectResult(routes, pathRoutes, projectName)[1]
    /\ pathRoutes' = RemoveProjectResult(routes, pathRoutes, projectName)[2]
    /\ UNCHANGED <<lockVars, otherVars>>
    /\ lastOp' = [op |-> "RemoveProject", project |-> projectName,
                  dropped |-> Cardinality({e \in TableEntries :
                                  e[3].Backend.ProjectName = projectName})]

Next ==
    \/ \E b \in Backends : AddBackend(b)
    \/ \E id \in ContainerIDs : RemoveBackend(id)
    \/ \E p \in ProjectNames : RemoveProject(p)

Spec == Init /\ [][Next]_vars

----------------------------------------------------------------------------
(* The Router at the level of its lock: one goroutine calling the mutators *)
(* (the event consumer), one calling Lookup/ListRoutes (a request), every  *)
(* statement between Lock and Unlock a step of its own.                    *)

\* The two services of project p, under both hostnames and every prefix.
LockContainerIDs == {"c1", "c2"}
LockBackends ==
    {Backend(id, h, p) : id \in LockContainerIDs, h \in Hostnames, p \in PathPrefixes}

LockCalls ==
    {[op |-> "AddBackend", backend |-> b] : b \in LockBackends}
        \cup {[op |-> "RemoveBackend", id |-> id] : id \in LockContainerIDs}
        \cup {[op |-> "RemoveProject", project |-> NameP]}

\* (a slip: the table read without r.mu.RLock())
CanRLockUnguarded(m) == TRUE

\* r.mu.RLock() returns only while no writer holds the lock.
CanRLock(m) == ~m.writer

\* r.mu.Lock() returns only while nobody holds the lock.
CanLock(m) == ~m.writer /\ m.readers = 0

\* Whether the route r is dropped by the removal call.
Drops(call, r) ==
    IF call.op = "RemoveBackend" THEN r.Backend.ContainerID = call.id
    ELSE r.Backend.ProjectName = call.project

\* The tables a whole call leaves when it starts from table t.
CallResults(call, t) ==
    CASE call.op = "AddBackend"    -> AddBackendResults(t[1], t[2], call.backend)
      [] call.op = "RemoveBackend" -> {RemoveBackendResult(t[1], t[2], call.id)}
      [] call.op = "RemoveProject" -> {RemoveProjectResult(t[1], t[2], call.project)}
      [] OTHER                     -> {t}

\* r.mu.Lock() at the head of AddBackend, RemoveBackend, RemoveProject.
W_Lock(call) ==
    /\ wpc = "idle"
    /\ writes < MaxWrites
    /\ CanLock(mu)
    /\ mu' = [mu EXCEPT !.writer = TRUE]
    /\ wop' = call
    /\ writes' = writes + 1
    /\ IF call.op = "AddBackend"
       THEN wpc' = "add" /\ wkeys' = {}
       ELSE wpc' = "scan_routes" /\ wkeys' = DOMAIN routes
    /\ UNCHANGED <<otherVars, routes, pathRoutes, lastOp, rpc, rresult, committed>>

\* AddBackend, empty prefix: r.routes[hostname] = route
W_AddDefault ==
    /\ wpc = "add"
    /\ wop.backend.PathPrefix = <<>>
    /\ LET h == ToLower(wop.backend.Hostname)
       IN routes' = MapPut(routes, h, Route(h, wop.backend))
    /\ wpc' = "unlock"
    /\ UNCHANGED <<otherVars, pathRoutes, lastOp, mu, wop, wkeys, writes, rpc, rresult, committed>>

\* AddBackend, path prefix: r.pathRoutes[hostname] = append(...)
W_AddAppend ==
    /\ wpc = "add"
    /\ wop.backend.PathPrefix # <<>>
    /\ LET h == ToLower(wop.backend.Hostname)
       IN pathRoutes' = MapPut(pathRoutes, h,
                               Append(PathList(pathRoutes, h), Route(h, wop.backend)))
    /\ wpc' = "sort"
    /\ UNCHANGED <<otherVars, routes, lastOp, mu, wop, wkeys, writes, rpc, rresult, committed>>

\* AddBackend, path prefix: sort.Slice(r.pathRoutes[hostname], ...)
W_AddSort ==
    /\ wpc = "sort"
    /\ LET h == ToLower(wop.backend.Hostname)
       IN \E s \in SortSlicePrefixLenDesc(pathRoutes[h]) :
            pathRoutes' = MapPut(pathRoutes, h, s)
    /\ wpc' = "unlock"
    /\ UNCHANGED <<otherVars, routes, lastOp, mu, wop, wkeys, writes, rpc, rresult, committed>>

\* One iteration of "for hostname, route := range r.routes" in a removal.
W_ScanRoute ==
    /\ wpc = "scan_routes"
    /\ \E h \in wkeys :
        /\ wkeys' = wkeys \ {h}
        /\ routes' = IF Drops(wop, routes[h]) THEN MapDelete(routes, {h}) ELSE routes
    /\ UNCHANGED <<otherVars, pathRoutes, lastOp, mu, wpc, wop, writes, rpc, rresult, committed>>

\* The first loop of a removal is over; the second ranges over r.pathRoutes.
W_ScanRoutesDone ==
    /\ wpc = "scan_routes"
    /\ wkeys = {}
    /\ wpc' = "scan_paths"
    /\ wkeys' = DOMAIN pathRoutes
    /\ UNCHANGED <<otherVars, routes, pathRoutes, lastOp, mu, wop, writes, rpc, rresult, committed>>

\* One iteration of "for hostname, routes := range r.pathRoutes" in a removal.
W_ScanPath ==
    /\ wpc = "scan_paths"
    /\ \E h \in wkeys :
        /\ wkeys' = wkeys \ {h}
        /\ LET filtered == SelectSeq(pathRoutes[h], LAMBDA r : ~Drops(wop, r))
           IN pathRoutes' = IF filtered = <<>> THEN MapDelete(pathRoutes, {h})
                            ELSE MapPut(pathRoutes, h, filtered)
    /\ UNCHANGED <<otherVars, routes, lastOp, mu, wpc, wop, writes, rpc, rresult, committed>>

W_ScanPathsDone ==
    /\ wpc = "scan_paths"
    /\ wkeys = {}
    /\ wpc' = "unlock"
    /\ UNCHANGED <<otherVars, routes, pathRoutes, lastOp, mu, wop, wkeys, writes, rpc, rresult,
                   committed>>

\* defer r.mu.Unlock()
W_Unlock ==
    /\ wpc = "unlock"
    /\ mu' = [mu EXCEPT !.writer = FALSE]
    /\ wpc' = "idle"
    /\ committed' = <<routes, pathRoutes>>
    /\ UNCHANGED <<otherVars, routes, pathRoutes, lastOp, wop, wkeys, writes, rpc, rresult>>

\* r.mu.RLock() at the head of Lookup and ListRoutes.
R_RLock ==
    /\ rpc = "idle"
    /\ CanRLock(mu)
    /\ mu' = [mu EXCEPT !.readers = @ + 1]
    /\ rpc' = "locked"
    /\ UNCHANGED <<otherVars, routes, pathRoutes, lastOp, wpc, wop, wkeys, writes, rresult, committed>>

\* History: whether the table a reader sees is neither the table before the
\* mutating call in progress nor a table that call leaves.
Torn ==
    /\ <<routes, pathRoutes>> # committed
    /\ <<routes, pathRoutes>> \notin CallResults(wop, committed)

\* The body of Lookup.
R_Lookup(hostname, path) ==
    /\ rpc = "locked"
    /\ rresult' = [op |-> "Lookup", route |-> Lookup(hostname, path), torn |-> Torn]
    /\ rpc' = "read"
    /\ UNCHANGED <<otherVars, routes, pathRoutes, lastOp, mu, wpc, wop, wkeys, writes, committed>>

\* The body of ListRoutes.
R_ListRoutes ==
    /\ rpc = "locked"
    /\ \E l \in ListRoutesResults(routes, pathRoutes) :
        rresult' = [op |-> "ListRoutes", infos |-> l, torn |-> Torn]
    /\ rpc' = "read"
    /\ UNCHANGED <<otherVars, routes, pathRoutes, lastOp, mu, wpc, wop, wkeys, writes, committed>>

\* defer r.mu.RUnlock(); the caller keeps what was returned.
R_RUnlock ==
    /\ rpc = "read"
    /\ mu' = [mu EXCEPT !.readers = @ - 1]
    /\ rpc' = "idle"
    /\ UNCHANGED <<otherVars, routes, pathRoutes, lastOp, wpc, wop, wkeys, writes, rresult, committed>>

NextLock ==
    \/ \E call \in LockCalls : W_Lock(call)
    \/ W_AddDefault
    \/ W_AddAppend
    \/ W_AddSort
    \/ W_ScanRoute
    \/ W_ScanRoutesDone
    \/ W_ScanPath
    \/ W_ScanPathsDone
    \/ W_Unlock
    \/ R_RLock
    \/ R_Lookup(HostUpperA, PathA)
    \/ R_ListRoutes
    \/ R_RUnlock

SpecLock == Init /\ [][NextLock]_vars

----------------------------------------------------------------------------
(* The container engine as the observer (docker.Client) sees it.           *)

\* Starts and stops of containers explored.
MaxChanges == 2

\* c.baseDomain: "d"
BaseDomain == <<100>>

\* strings.TrimPrefix
TrimPrefix(s, prefix) ==
    IF HasPrefix(s, prefix) THEN SubSeq(s, Len(prefix) + 1, Len(s)) ELSE s

\* config.DefaultHostname
DefaultHostname(serviceName, baseDomain) == serviceName \o <<46>> \o baseDomain

\* What ContainerInspect answers for a container that exists
\* (types.ContainerJSON, the fields the observer reads).  A container that is
\* not running keeps its network attachment but has no address.
Inspect(id) ==
    [ID           |-> id,
     Name         |-> containers[id].Name,
     Labels       |-> containers[id].Labels,
     ExposedPorts |-> containers[id].ExposedPorts,
     Ports        |-> containers[id].Ports,
     OnNetwork    |-> containers[id].OnNetwork,
     IPAddress    |-> IF id \in running THEN containers[id].IPAddress ELSE ""]

\* ContainerInspect: the engine's answers.  A container that has stopped is
\* either still there or already removed (an error).
InspectResults(id) ==
    IF id \in running THEN {[err |-> FALSE, info |-> Inspect(id)]}
    ELSE {[err |-> FALSE, info |-> Inspect(id)], [err |-> TRUE, info |-> Inspect(id)]}

\* ContainerList with the network filter and, for project # "", the compose
\* project label filter: the running containers that match.
Listed(project) ==
    {id \in running : containers[id].OnNetwork
                        /\ (project # <<>> => containers[id].Labels.project = project)}

\* (a slip: every listed container counted, whatever its project)
ProjectServiceCountAll(ids, project) == Cardinality(ids)

\* (a slip: the distinct services of the project counted, not its containers)
ProjectServiceCountDistinct(ids, project) ==
    Cardinality({containers[id].Labels.service :
                    id \in {x \in ids : containers[x].Labels.self # TrueLabel
                                          /\ containers[x].Labels.project = project}})

\* buildProjectServiceCounts / countProjectServices: the listed containers of
\* the project, roji itself left out.
ProjectServiceCount(ids, project) ==
    Cardinality({id \in ids : containers[id].Labels.self # TrueLabel
                                /\ containers[id].Labels.project = project})

\* (a slip: the host label taken untrimmed)
ParseLabelsHostUntrimmed(labels) ==
    [Host       |-> labels.host,
     Port       |-> IF Atoi(TrimSpace(labels.port)).err THEN 0
                    ELSE Atoi(TrimSpace(labels.port)).n,
     PathPrefix |-> TrimSpace(labels.path)]

\* config.ParseLabels
ParseLabels(labels) ==
    [Host       |-> TrimSpace(labels.host),
     Port       |-> IF Atoi(TrimSpace(labels.port)).err THEN 0
                    ELSE Atoi(TrimSpace(labels.port)).n,
     PathPrefix |-> TrimSpace(labels.path)]

\* The ports a range over a map of port specs can return first: those of the
\* specs whose part before "/" is a number.  Go ranges over a map in no fixed
\* order.
ParseablePorts(specs) ==
    {Atoi(SplitFirst(spec, 47)).n : spec \in {x \in specs : ~Atoi(SplitFirst(x, 47)).err}}

\* (a slip: the published ports consulted before the exposed ones)
detectPortPublishedFirst(info) ==
    IF ParseablePorts(info.Ports) # {} THEN ParseablePorts(info.Ports)
    ELSE IF ParseablePorts(info.ExposedPorts) # {} THEN ParseablePorts(info.ExposedPorts)
    ELSE {0}

\* Client.detectPort: the ports it can return.
detectPort(info) ==
    IF ParseablePorts(info.ExposedPorts) # {} THEN ParseablePorts(info.ExposedPorts)
    ELSE IF ParseablePorts(info.Ports) # {} THEN ParseablePorts(info.Ports)
    ELSE {0}

\* (a slip: the project-only form used whatever the count)
detectHostnameProjectOnly(info, count) ==
    IF info.Labels.project # <<>> /\ info.Labels.service # <<>>
    THEN DefaultHostname(info.Labels.project, BaseDomain)
    ELSE DefaultHostname(TrimPrefix(info.Name, <<47>>), BaseDomain)

\* Client.detectHostname
detectHostname(info, count) ==
    IF info.Labels.project # <<>> /\ info.Labels.service # <<>>
    THEN IF count <= 1 THEN DefaultHostname(info.Labels.project, BaseDomain)
         ELSE DefaultHostname(info.Labels.service \o <<46>> \o info.Labels.project,
                              BaseDomain)
    ELSE DefaultHostname(TrimPrefix(info.Name, <<47>>), BaseDomain)

\* Client.inspectToBackend: the backends it can return (one for each port
\* detectPort can give).  NilBackend stands for the nil it returns for roji
\* itself and for a container without a port.
inspectToBackend(info, count) ==
    LET labelCfg == ParseLabels(info.Labels)
        ports    == IF labelCfg.Port # 0 THEN {labelCfg.Port} ELSE detectPort(info)
        service  == IF info.Labels.service # <<>> THEN info.Labels.service
                    ELSE TrimPrefix(info.Name, <<47>>)
        hostname == IF labelCfg.Host # <<>> THEN labelCfg.Host
                    ELSE detectHostname(info, count)
    IN IF info.Labels.self = TrueLabel THEN {NilBackend}
       ELSE {IF port = 0 THEN NilBackend
             ELSE [ContainerID   |-> info.ID,
                   ContainerName |-> TrimPrefix(info.Name, <<47>>),
                   ServiceName   |-> service,
                   ProjectName   |-> info.Labels.project,
                   Host          |-> info.IPAddress,
                   Port          |-> port,
                   Hostname      |-> hostname,
                   PathPrefix    |-> labelCfg.PathPrefix] : port \in ports}

\* Client.GetBackend: (backend, err) for every answer of the engine.  A failed
\* count falls back to 1.
GetBackendResults(id) ==
    LET counts(info) == IF info.Labels.project = <<>> THEN {0}
                        ELSE {ProjectServiceCount(Listed(info.Labels.project),
                                                  info.Labels.project), 1}
        ok(r) == IF ~r.info.OnNetwork THEN {[err |-> FALSE, backend |-> NilBackend]}
                 ELSE UNION {{[err |-> FALSE, backend |-> b] :
                                b \in inspectToBackend(r.info, count)} :
                             count \in counts(r.info)}
    IN UNION {IF r.err THEN {[err |-> TRUE, backend |-> NilBackend]} ELSE ok(r) :
                r \in InspectResults(id)}

\* Client.GetBackend called with the handler's context: the engine client
\* gives up a request whose context is done.
GetBackendCalled(id) ==
    IF ctx = "cancelled" THEN {[err |-> TRUE, backend |-> NilBackend]}
    ELSE GetBackendResults(id)

\* The orders in which the engine may list a set of containers.
RECURSIVE ListOrders(_)
ListOrders(ids) ==
    IF ids = {} THEN {<<>>}
    ELSE UNION {{<<id>> \o rest : rest \in ListOrders(ids \ {id})} : id \in ids}

\* (a slip: the attachment of the listed container not looked at)
containerToBackendAnyNetwork(id, gone, count) ==
    IF id \in gone THEN {[err |-> TRUE, backend |-> NilBackend]}
    ELSE {[err |-> FALSE, backend |-> b] : b \in inspectToBackend(Inspect(id), count)}

\* Client.containerToBackend for a listed container: (backend, err).  nil
\* without an error when the entry of the listing has no attachment to the
\* shared network; an error when ContainerInspect fails, as it does for the
\* containers of gone, removed since they were listed; else what
\* inspectToBackend makes of the inspection.
containerToBackend(id, gone, count) ==
    IF ~containers[id].OnNetwork THEN {[err |-> FALSE, backend |-> NilBackend]}
    ELSE IF id \in gone THEN {[err |-> TRUE, backend |-> NilBackend]}
    ELSE {[err |-> FALSE, backend |-> b] : b \in inspectToBackend(Inspect(id), count)}

\* The loop of DiscoverBackends / GetProjectBackends over a listing, every
\* container resolved against the counts of that listing (ids): the backend
\* lists it can build.  A container that gives an error is logged and
\* skipped, a nil backend is skipped.
RECURSIVE BackendsOfListing(_, _, _)
BackendsOfListing(list, ids, gone) ==
    IF list = <<>> THEN {<<>>}
    ELSE LET id == Head(list)
             rs == containerToBackend(id, gone,
                       ProjectServiceCount(ids, containers[id].Labels.project))
         IN UNION {{IF r.err \/ r.backend = NilBackend THEN rest ELSE <<r.backend>> \o rest :
                        rest \in BackendsOfListing(Tail(list), ids, gone)} : r \in rs}

\* The same while every listed container is still there when it is
\* inspected.
BackendsOfList(list, ids) == BackendsOfListing(list, ids, {})

\* Client.GetProjectBackends: (backends, err).
GetProjectBackendsResults(project) ==
    {[err |-> TRUE, backends |-> <<>>]}
    \cup UNION {{[err |-> FALSE, backends |-> bs] :
                    bs \in BackendsOfList(list, Listed(project))} :
                list \in ListOrders(Listed(project))}

\* Client.GetProjectBackends called with the handler's context.
GetProjectBackendsCalled(project) ==
    IF ctx = "cancelled" THEN {[err |-> TRUE, backends |-> <<>>]}
    ELSE GetProjectBackendsResults(project)

\* Client.DiscoverBackends: (backends, err).
DiscoverBackendsResults ==
    {[err |-> TRUE, backends |-> <<>>]}
    \cup UNION {{[err |-> FALSE, backends |-> bs] :
                    bs \in BackendsOfList(list, Listed(<<>>))} :
                list \in ListOrders(Listed(<<>>))}

\* The tables a run of AddBackend over a list of backends can leave.
RECURSIVE AddAllResults(_, _)
AddAllResults(t, backends) ==
    IF backends = <<>> THEN {t}
    ELSE UNION {AddAllResults(u, Tail(backends)) :
                    u \in AddBackendResults(t[1], t[2], Head(backends))}

----------------------------------------------------------------------------
(* cmd/roji: discoverExisting, then handleEvents consuming the events of   *)
(* the watcher one at a time, while requests look routes up.  Every call   *)
(* of the Router and of the engine is one step; a handler is the sequence  *)
(* of its calls.                                                           *)

\* Hostnames the resolver can give the containers: "p.d", "w.p.d", "a.p.d", "s.d".
EventLookupHosts ==
    {DefaultHostname(NameP, BaseDomain),
     DefaultHostname(NameW \o <<46>> \o NameP, BaseDomain),
     DefaultHostname(NameA \o <<46>> \o NameP, BaseDomain),
     DefaultHostname(NameS, BaseDomain)}

\* Watcher.processEvent: the engine's message as a docker.ContainerEvent
\* (NoEvent for nil).
processEvent(msg) ==
    CASE msg.Action = "start"             -> [Type |-> "EventStart", ContainerID |-> msg.ID]
      [] msg.Action \in {"stop", "die"}   -> [Type |-> "EventStop", ContainerID |-> msg.ID]
      [] OTHER                            -> NoEvent

lockOnlyVars == <<mu, wpc, wop, wkeys, writes, rpc, committed>>

InitEvents ==
    /\ RouterInit
    /\ lastOp = InitOp
    /\ LockIdle
    /\ containers = DefaultContainers
    /\ running \in SUBSET ContainerIDs
    /\ eventCh = <<>>
    /\ changes = 0
    /\ hpc = "discover"
    /\ hev = NoEvent
    /\ hb = NilBackend
    /\ todo = <<>>
    /\ refreshPre = <<>>
    /\ hpre = NoReceipt
    /\ handled = NoneHandled
    /\ served = NoRequest
    /\ WatchOff
    /\ CertsOff

\* discoverExisting: runs before the watcher and the servers are started.
DiscoverExisting ==
    /\ hpc = "discover"
    /\ \E r \in DiscoverBackendsResults :
        /\ lastOp' = [op |-> "discoverExisting", err |-> r.err, backends |-> r.backends]
        /\ IF r.err
           THEN /\ hpc' = "exit"
                /\ UNCHANGED <<routes, pathRoutes>>
           ELSE /\ hpc' = "idle"
                /\ \E t \in AddAllResults(<<routes, pathRoutes>>, r.backends) :
                       /\ routes' = t[1]
                       /\ pathRoutes' = t[2]
    /\ UNCHANGED <<lockOnlyVars, containers, rresult, running, eventCh, changes, hev,
                   hb, todo, refreshPre, hpre, handled, served, certVars, watchVars>>

\* A container starts: the engine emits "start".
EngineStart(id) ==
    /\ hpc \notin {"discover", "exit"}
    /\ changes < MaxChanges
    /\ id \notin running
    /\ running' = running \cup {id}
    /\ eventCh' = Append(eventCh, [Action |-> "start", ID |-> id])
    /\ changes' = changes + 1
    /\ UNCHANGED <<routes, pathRoutes, lastOp, lockVars, containers, hpc, hev, hb,
                   todo, refreshPre, hpre, handled, served, certVars, watchVars>>

\* A container stops: the engine emits "die", and "stop" after it when the
\* container was stopped on request.
EngineStop(id) ==
    /\ hpc \notin {"discover", "exit"}
    /\ changes < MaxChanges
    /\ id \in running
    /\ running' = running \ {id}
    /\ \E msgs \in {<<[Action |-> "die", ID |-> id]>>,
                    <<[Action |-> "die", ID |-> id], [Action |-> "stop", ID |-> id]>>} :
        eventCh' = eventCh \o msgs
    /\ changes' = changes + 1
    /\ UNCHANGED <<routes, pathRoutes, lastOp, lockVars, containers, hpc, hev, hb,
                   todo, refreshPre, hpre, handled, served, certVars, watchVars>>

\* What is recorded when the handling of an event ends: the event, the table
\* and whether the engine changed since the event was received, the containers
\* running, and how the handler ended.
Handled(outcome) ==
    [event   |-> hev,
     pre     |-> hpre.table,
     quiet   |-> hpre.changes = changes,
     engine  |-> running,
     outcome |-> outcome]

\* handleEvents: receive the next event and dispatch on its type.
H_Receive ==
    /\ hpc = "idle"
    /\ eventCh # <<>>
    /\ eventCh' = Tail(eventCh)
    /\ hev' = processEvent(Head(eventCh))
    /\ hpc' = IF hev'.Type = "EventStart" THEN "start_get" ELSE "stop_get"
    /\ hpre' = [table |-> <<routes, pathRoutes>>, changes |-> changes]
    /\ UNCHANGED <<routes, pathRoutes, lastOp, lockVars, containers, running, changes,
                   hb, todo, refreshPre, handled, served, certVars, watchVars>>

\* (a slip: the project refreshed whatever the backend's project name)
H_StartGetBackendAlwaysRefresh ==
    /\ hpc = "start_get"
    /\ \E r \in GetBackendCalled(hev.ContainerID) :
        IF r.err \/ r.backend = NilBackend
        THEN /\ hpc' = "idle"
             /\ hev' = NoEvent
             /\ hb' = NilBackend
             /\ hpre' = NoReceipt
             /\ handled' = Handled("no_backend")
        ELSE /\ hpc' = "remove_project"
             /\ hb' = r.backend
             /\ UNCHANGED <<hev, hpre, handled>>
    /\ UNCHANGED <<routes, pathRoutes, lastOp, lockVars, containers, running, eventCh,
                   changes, todo, refreshPre, served, certVars, watchVars>>

\* handleStartEvent: GetBackend; return on an error or a nil backend.
H_StartGetBackend ==
    /\ hpc = "start_get"
    /\ \E r \in GetBackendCalled(hev.ContainerID) :
        IF r.err \/ r.backend = NilBackend
        THEN /\ hpc' = "idle"
             /\ hev' = NoEvent
             /\ hb' = NilBackend
             /\ hpre' = NoReceipt
             /\ handled' = Handled("no_backend")
        ELSE /\ hpc' = IF r.backend.ProjectName # <<>> THEN "remove_project" ELSE "add_one"
             /\ hb' = r.backend
             /\ UNCHANGED <<hev, hpre, handled>>
    /\ UNCHANGED <<routes, pathRoutes, lastOp, lockVars, containers, running, eventCh,
                   changes, todo, refreshPre, served, certVars, watchVars>>

\* handleStartEvent, no compose project: router.AddBackend(backend).
H_AddOne ==
    /\ hpc = "add_one"
    /\ \E t \in AddBackendResults(routes, pathRoutes, hb) :
        /\ routes' = t[1]
        /\ pathRoutes' = t[2]
    /\ lastOp' = [op |-> "AddBackend", backend |-> hb]
    /\ hpc' = "idle"
    /\ hev' = NoEvent
    /\ hb' = NilBackend
    /\ hpre' = NoReceipt
    /\ handled' = Handled("added")
    /\ UNCHANGED <<lockOnlyVars, containers, rresult, running, eventCh, changes, todo,
                   refreshPre, served, certVars, watchVars>>

\* handleStopEvent: backend, _ := GetBackend (the error is dropped).
H_StopGetBackend ==
    /\ hpc = "stop_get"
    /\ \E r \in GetBackendCalled(hev.ContainerID) : hb' = r.backend
    /\ hpc' = "stop_remove"
    /\ UNCHANGED <<routes, pathRoutes, lastOp, lockVars, containers, running, eventCh,
                   changes, hev, todo, refreshPre, hpre, handled, served, certVars, watchVars>>

\* handleStopEvent: router.RemoveBackend(containerID), then the refresh when
\* the backend was found and belongs to a project.
H_RemoveBackend ==
    /\ hpc = "stop_remove"
    /\ routes' = RemoveBackendResult(routes, pathRoutes, hev.ContainerID)[1]
    /\ pathRoutes' = RemoveBackendResult(routes, pathRoutes, hev.ContainerID)[2]
    /\ lastOp' = [op |-> "RemoveBackend", id |-> hev.ContainerID,
                  dropped |-> Cardinality({e \in TableEntries :
                                  e[3].Backend.ContainerID = hev.ContainerID})]
    /\ IF hb # NilBackend /\ hb.ProjectName # <<>>
       THEN /\ hpc' = "remove_project"
            /\ UNCHANGED <<hev, hb, hpre, handled>>
       ELSE /\ hpc' = "idle"
            /\ hev' = NoEvent
            /\ hb' = NilBackend
            /\ hpre' = NoReceipt
            /\ handled' = Handled("removed")
    /\ UNCHANGED <<lockOnlyVars, containers, rresult, running, eventCh, changes, todo,
                   refreshPre, served, certVars, watchVars>>

\* Either handler: router.RemoveProject(backend.ProjectName).
H_RemoveProject ==
    /\ hpc = "remove_project"
    /\ refreshPre' = <<routes, pathRoutes>>
    /\ routes' = RemoveProjectResult(routes, pathRoutes, hb.ProjectName)[1]
    /\ pathRoutes' = RemoveProjectResult(routes, pathRoutes, hb.ProjectName)[2]
    /\ lastOp' = [op |-> "RemoveProject", project |-> hb.ProjectName,
                  dropped |-> Cardinality({e \in TableEntries :
                                  e[3].Backend.ProjectName = hb.ProjectName})]
    /\ hpc' = "list"
    /\ UNCHANGED <<lockOnlyVars, containers, rresult, running, eventCh, changes, hev,
                   hb, todo, hpre, handled, served, certVars, watchVars>>

\* (a slip: the table put back as it was when the listing fails)
H_GetProjectBackendsRollBack ==
    /\ hpc = "list"
    /\ \E r \in GetProjectBackendsCalled(hb.ProjectName) :
        IF r.err \/ r.backends = <<>>
        THEN /\ hpc' = "idle"
             /\ hev' = NoEvent
             /\ hb' = NilBackend
             /\ todo' = <<>>
             /\ refreshPre' = <<>>
             /\ hpre' = NoReceipt
             /\ handled' = Handled(IF r.err THEN "list_failed" ELSE "refreshed")
             /\ routes' = IF r.err THEN refreshPre[1] ELSE routes
             /\ pathRoutes' = IF r.err THEN refreshPre[2] ELSE pathRoutes
        ELSE /\ hpc' = "add"
             /\ todo' = r.backends
             /\ UNCHANGED <<routes, pathRoutes, hev, hb, refreshPre, hpre, handled>>
    /\ UNCHANGED <<lastOp, lockVars, containers, running, eventCh,
                   changes, served, certVars, watchVars>>

\* Either handler: client.GetProjectBackends.  On an error, and on an empty
\* list, nothing is added and the handler is done.
H_GetProjectBackends ==
    /\ hpc = "list"
    /\ \E r \in GetProjectBackendsCalled(hb.ProjectName) :
        IF r.err \/ r.backends = <<>>
        THEN /\ hpc' = "idle"
             /\ hev' = NoEvent
             /\ hb' = NilBackend
             /\ todo' = <<>>
             /\ refreshPre' = <<>>
             /\ hpre' = NoReceipt
             /\ handled' = Handled(IF r.err THEN "list_failed" ELSE "refreshed")
        ELSE /\ hpc' = "add"
             /\ todo' = r.backends
             /\ UNCHANGED <<hev, hb, refreshPre, hpre, handled>>
    /\ UNCHANGED <<routes, pathRoutes, lastOp, lockVars, containers, running, eventCh,
                   changes, served, certVars, watchVars>>

\* Either handler: one turn of  for _, b := range backends { router.AddBackend(b) }.
H_AddNext ==
    /\ hpc = "add"
    /\ \E t \in AddBackendResults(routes, pathRoutes, Head(todo)) :
        /\ routes' = t[1]
        /\ pathRoutes' = t[2]
    /\ lastOp' = [op |-> "AddBackend", backend |-> Head(todo)]
    /\ todo' = Tail(todo)
    /\ IF Tail(todo) = <<>>
       THEN /\ hpc' = "idle"
            /\ hev' = NoEvent
            /\ hb' = NilBackend
            /\ refreshPre' = <<>>
            /\ hpre' = NoReceipt
            /\ handled' = Handled("refreshed")
       ELSE UNCHANGED <<hpc, hev, hb, refreshPre, hpre, handled>>
    /\ UNCHANGED <<lockOnlyVars, containers, rresult, running, eventCh, changes,
                   served, certVars, watchVars>>

\* A project refresh is under way: RemoveProject has run, backends listed by
\* GetProjectBackends are still to be added.
MidRefresh == hpc = "add" /\ todo # <<>>

\* A request's Router.Lookup, once the servers are up.  With the route it
\* records what the same Lookup gives on the table the refresh under way began
\* with and on the tables it ends with.
E_Lookup(hostname, path) ==
    /\ hpc \notin {"discover", "exit"}
    /\ rresult' =
        [op    |-> "Lookup",
         route |-> Lookup(hostname, path),
         mid   |-> MidRefresh,
         pre   |-> IF MidRefresh THEN LookupIn(refreshPre[1], refreshPre[2], hostname, path)
                   ELSE NoRoute,
         posts |-> IF MidRefresh
                   THEN {LookupIn(t[1], t[2], hostname, path) :
                            t \in AddAllResults(<<routes, pathRoutes>>, todo)}
                   ELSE {}]
    /\ UNCHANGED <<routes, pathRoutes, lastOp, lockOnlyVars, otherVars>>

\* The observer and the event consumer on their own.
NextHandling ==
    \/ DiscoverExisting
    \/ \E id \in ContainerIDs : EngineStart(id)
    \/ \E id \in ContainerIDs : EngineStop(id)
    \/ H_Receive
    \/ H_StartGetBackend
    \/ H_AddOne
    \/ H_StopGetBackend
    \/ H_RemoveBackend
    \/ H_RemoveProject
    \/ H_GetProjectBackends
    \/ H_AddNext

SpecHandling == InitEvents /\ [][NextHandling]_vars

\* The same with requests looking routes up in between.
NextEvents ==
    \/ NextHandling
    \/ \E h \in EventLookupHosts : E_Lookup(h, PathRoot)

SpecEvents == InitEvents /\ [][NextEvents]_vars

----------------------------------------------------------------------------
(* docker.Watcher: Watch, watchLoop and the consumer handleEvents.  The    *)
(* channel eventCh of Watch is unbuffered: the watcher's send and the      *)
(* consumer's receive are one step, and eventCh itself holds nothing.      *)

\* Event stream failures explored.
MaxFailures == 2

\* The container that starts and stops while the watcher runs: c1 of project
\* p, next to c2 of the same project, so that its events are handled with a
\* project refresh.
WatchedIDs == {"c1"}

InitWatch ==
    /\ RouterInit
    /\ lastOp = InitOp
    /\ LockIdle
    /\ containers = DefaultContainers
    /\ running = {"c2"}
    /\ eventCh = <<>>
    /\ changes = 0
    /\ hpc = "discover"
    /\ hev = NoEvent
    /\ hb = NilBackend
    /\ todo = <<>>
    /\ refreshPre = <<>>
    /\ hpre = NoReceipt
    /\ handled = NoneHandled
    /\ served = NoRequest
    /\ WatchOff
    /\ CertsOff

\* What a watcher step leaves alone: the router, the engine, the consumer.
watcherFrame == <<routes, pathRoutes, lastOp, lockVars, evVars, served, certVars>>

\* (a slip: the watcher started without waiting for discoverExisting)
W_StartEarly ==
    /\ wtpc = "off"
    /\ wtpc' = "outer"
    /\ UNCHANGED <<watcherFrame, ctx, hung, stream, msgCh, wtev, failures, seen, applied>>

\* run: watcher.Watch(ctx) and go handleEvents, after discoverExisting has
\* returned without an error.
W_Start ==
    /\ wtpc = "off"
    /\ hpc = "idle"
    /\ wtpc' = "outer"
    /\ UNCHANGED <<watcherFrame, ctx, hung, stream, msgCh, wtev, failures, seen, applied>>

\* Watch, the outer select: return and close eventCh when the context is
\* done; by default enter watchLoop, which subscribes with Events(ctx, ...).
\* (A subscription that fails at once is one that StreamFail ends before it
\* has delivered a message.)
W_Outer ==
    /\ wtpc = "outer"
    /\ IF ctx = "cancelled"
       THEN /\ wtpc' = "closed"
            /\ UNCHANGED <<stream, msgCh>>
       ELSE /\ wtpc' = "loop"
            /\ stream' = "open"
            /\ msgCh' = <<>>
    /\ UNCHANGED <<watcherFrame, ctx, hung, wtev, failures, seen, applied>>

\* watchLoop, case <-ctx.Done(): return.
W_LoopDone ==
    /\ wtpc = "loop"
    /\ ctx = "cancelled"
    /\ wtpc' = "after"
    /\ stream' = "none"
    /\ msgCh' = <<>>
    /\ UNCHANGED <<watcherFrame, ctx, hung, wtev, failures, seen, applied>>

\* watchLoop, case err := <-errCh: return, to reconnect.  The engine client
\* reports the error after the messages it had decoded were taken.
W_LoopErr ==
    /\ wtpc = "loop"
    /\ stream = "failed"
    /\ msgCh = <<>>
    /\ wtpc' = "after"
    /\ stream' = "none"
    /\ UNCHANGED <<watcherFrame, ctx, hung, msgCh, wtev, failures, seen, applied>>

\* watchLoop, case msg := <-msgCh: processEvent, and the event to be sent.
W_Msg ==
    /\ wtpc = "loop"
    /\ msgCh # <<>>
    /\ msgCh' = Tail(msgCh)
    /\ IF processEvent(Head(msgCh)) # NoEvent
       THEN /\ wtpc' = "send"
            /\ wtev' = processEvent(Head(msgCh))
            /\ seen' = Append(seen, processEvent(Head(msgCh)))
       ELSE UNCHANGED <<wtpc, wtev, seen>>
    /\ UNCHANGED <<watcherFrame, ctx, hung, stream, failures, applied>>

\* watchLoop, eventCh <- *event, met by handleEvents, event, ok := <-eventCh,
\* which dispatches on the event's type.
W_Send ==
    /\ wtpc = "send"
    /\ hpc = "idle"
    /\ wtpc' = "loop"
    /\ wtev' = NoEvent
    /\ applied' = Append(applied, wtev)
    /\ hev' = wtev
    /\ hpc' = IF wtev.Type = "EventStart" THEN "start_get" ELSE "stop_get"
    /\ hpre' = [table |-> <<routes, pathRoutes>>, changes |-> changes,
                reconnected |-> (stream = "open" /\ failures > 0),
                late |-> (ctx = "cancelled")]
    /\ UNCHANGED <<routes, pathRoutes, lastOp, lockVars, containers, running, eventCh,
                   changes, hb, todo, refreshPre, handled, served, certVars,
                   ctx, hung, stream, msgCh, failures, seen>>

\* watchLoop, the send abandoned: case <-ctx.Done(): return.
W_SendDone ==
    /\ wtpc = "send"
    /\ ctx = "cancelled"
    /\ wtpc' = "after"
    /\ wtev' = NoEvent
    /\ stream' = "none"
    /\ msgCh' = <<>>
    /\ UNCHANGED <<watcherFrame, ctx, hung, failures, seen, applied>>

\* (a slip: the goroutine returns when watchLoop does, without reconnecting)
W_AfterReturns ==
    /\ wtpc = "after"
    /\ wtpc' = "closed"
    /\ UNCHANGED <<watcherFrame, ctx, hung, stream, msgCh, wtev, failures, seen, applied>>

\* (a slip: the initial scan run again before reconnecting)
W_AfterRescan ==
    /\ wtpc = "after"
    /\ wtpc' = IF ctx = "cancelled" THEN "closed" ELSE "outer"
    /\ \E r \in DiscoverBackendsResults :
        /\ lastOp' = [op |-> "discoverExisting", err |-> r.err, backends |-> r.backends]
        /\ \E t \in AddAllResults(<<<<>>, <<>>>>, r.backends) :
               /\ routes' = t[1]
               /\ pathRoutes' = t[2]
    /\ UNCHANGED <<lockVars, evVars, served, certVars,
                   ctx, hung, stream, msgCh, wtev, failures, seen, applied>>

\* Watch, after watchLoop has returned: return and close eventCh when the
\* context is done, go round again when the five seconds are over.
W_After ==
    /\ wtpc = "after"
    /\ wtpc' = IF ctx = "cancelled" THEN "closed" ELSE "outer"
    /\ UNCHANGED <<watcherFrame, ctx, hung, stream, msgCh, wtev, failures, seen, applied>>

\* handleEvents, started by run after watcher.Watch: return when the context
\* is done or eventCh is closed.
H_Done ==
    /\ hpc = "idle"
    /\ wtpc # "off"
    /\ ctx = "cancelled" \/ wtpc = "closed"
    /\ hpc' = "stopped"
    /\ UNCHANGED <<routes, pathRoutes, lastOp, lockVars, containers, running, eventCh,
                   changes, hev, hb, todo, refreshPre, hpre, handled, served, certVars,
                   watchVars>>

\* A shutdown signal cancels the context.
Cancel ==
    /\ hpc \notin {"discover", "exit"}
    /\ ctx = "live"
    /\ ctx' = "cancelled"
    /\ UNCHANGED <<watcherFrame, hung, stream, msgCh, wtpc, wtev, failures, seen, applied>>

\* The stream's messages for the subscription: delivered when it is open,
\* not delivered to this watcher when it is not.
Delivered(msgs) == IF stream = "open" THEN msgCh \o msgs ELSE msgCh

\* A container starts: the engine emits "start" to the open stream.
StreamStart(id) ==
    /\ hpc \notin {"discover", "exit"}
    /\ changes < MaxChanges
    /\ id \notin running
    /\ running' = running \cup {id}
    /\ msgCh' = Delivered(<<[Action |-> "start", ID |-> id]>>)
    /\ changes' = changes + 1
    /\ UNCHANGED <<routes, pathRoutes, lastOp, lockVars, containers, eventCh, hpc, hev,
                   hb, todo, refreshPre, hpre, handled, served, certVars,
                   ctx, hung, stream, wtpc, wtev, failures, seen, applied>>

\* A container stops: the engine emits "die", and "stop" after it when the
\* container was stopped on request.
StreamStop(id) ==
    /\ hpc \notin {"discover", "exit"}
    /\ changes < MaxChanges
    /\ id \in running
    /\ running' = running \ {id}
    /\ \E msgs \in {<<[Action |-> "die", ID |-> id]>>,
                    <<[Action |-> "die", ID |-> id], [Action |-> "stop", ID |-> id]>>} :
        msgCh' = Delivered(msgs)
    /\ changes' = changes + 1
    /\ UNCHANGED <<routes, pathRoutes, lastOp, lockVars, containers, eventCh, hpc, hev,
                   hb, todo, refreshPre, hpre, handled, served, certVars,
                   ctx, hung, stream, wtpc, wtev, failures, seen, applied>>

\* The event stream ends or reports an error (the engine restarts).
StreamFail ==
    /\ stream = "open"
    /\ failures < MaxFailures
    /\ stream' = "failed"
    /\ failures' = failures + 1
    /\ UNCHANGED <<watcherFrame, ctx, hung, msgCh, wtpc, wtev, seen, applied>>

\* The engine stops answering inspect and list calls.
EngineHangs ==
    /\ hpc \notin {"discover", "exit"}
    /\ ~hung
    /\ hung' = TRUE
    /\ UNCHANGED <<watcherFrame, ctx, stream, msgCh, wtpc, wtev, failures, seen, applied>>

\* An inspect or list call of a handler returns: the engine answers, or the
\* context the call was given is done.  No other deadline is set on the call.
CallReturns == ~hung \/ ctx = "cancelled"

\* The steps of the handlers: those that call the engine, and the Router calls.
HandlerCalls ==
    \/ CallReturns /\ H_StartGetBackend
    \/ CallReturns /\ H_StopGetBackend
    \/ CallReturns /\ H_GetProjectBackends

HandlerSteps ==
    \/ H_RemoveBackend
    \/ H_RemoveProject
    \/ H_AddNext

\* The steps of the Watch goroutine.
WatcherSteps ==
    \/ W_Start
    \/ W_Outer
    \/ W_LoopDone
    \/ W_LoopErr
    \/ W_Msg
    \/ W_Send
    \/ W_SendDone
    \/ W_After

\* The engine, its event stream and the shutdown signal.
WorldSteps ==
    \/ \E id \in WatchedIDs : StreamStart(id)
    \/ \E id \in WatchedIDs : StreamStop(id)
    \/ StreamFail
    \/ Cancel

\* The watcher and the consumer with an engine that answers every call.
NextWatch ==
    \/ DiscoverExisting
    \/ WatcherSteps
    \/ HandlerCalls
    \/ HandlerSteps
    \/ H_Done
    \/ WorldSteps

SpecWatch == InitWatch /\ [][NextWatch]_vars

\* The watcher and the consumer while one container without a compose
\* project starts and stops: the handlers of its events call GetBackend and
\* then AddBackend or RemoveBackend.
LiveIDs == {"c3"}

LiveHandlerSteps ==
    \/ CallReturns /\ H_StartGetBackend
    \/ CallReturns /\ H_StopGetBackend
    \/ H_AddOne
    \/ H_RemoveBackend
    \/ H_Done

LiveWorldSteps ==
    \/ \E id \in LiveIDs : StreamStart(id)
    \/ \E id \in LiveIDs : StreamStop(id)
    \/ StreamFail
    \/ Cancel

NextWatchLive ==
    \/ DiscoverExisting
    \/ WatcherSteps
    \/ LiveHandlerSteps
    \/ LiveWorldSteps

\* The goroutines keep running: when the watcher or the consumer can take a
\* step, one of them does.
WatchFairness == WF_vars(WatcherSteps \/ LiveHandlerSteps)

SpecWatchLive == InitWatch /\ [][NextWatchLive]_vars /\ WatchFairness

\* The same with an engine that may stop answering.
NextWatchHang == NextWatchLive \/ EngineHangs

SpecWatchHang == InitWatch /\ [][NextWatchHang]_vars /\ WatchFairness

----------------------------------------------------------------------------
(* The initial scan over containers of every configuration: the labels,    *)
(* port specs and compose membership are drawn from the sets below, then   *)
(* discoverExisting runs once.                                             *)

\* roji.host values: unset, " ", " X.d "
HostLabels == {<<>>, <<32>>, <<32, 88, 46, 100, 32>>}

\* roji.port values: unset, "x", " 81 ", "0"
PortLabels == {<<>>, <<120>>, <<32, 56, 49, 32>>, <<48>>}

\* roji.path values: unset, "/", " /a ", "/a/../b"
PathLabels == {<<>>, <<47>>, <<32, 47, 97, 32>>, <<47, 97, 47, 46, 46, 47, 98>>}

\* <<Config.ExposedPorts, NetworkSettings.Ports>>: none; "80/tcp" exposed;
\* "80/tcp" and "82/tcp" exposed and "90/tcp" published; the range "8-9/tcp"
\* exposed and "90/tcp" published.
PortSpecs ==
    {<<{}, {}>>,
     <<{<<56, 48>> \o SlashTcp}, {}>>,
     <<{<<56, 48>> \o SlashTcp, <<56, 50>> \o SlashTcp}, {<<57, 48>> \o SlashTcp}>>,
     <<{<<56, 45, 57>> \o SlashTcp}, {<<57, 48>> \o SlashTcp}>>}

\* c1: service w, in project p or on its own, with every combination of the
\* roji labels and port specs.
ConfigsC1 ==
    {Container(NamePW, Labels(project, service, <<>>, host, port, path),
               ps[1], ps[2], TRUE, "10.0.0.1") :
        project \in {<<>>, NameP}, service \in {<<>>, NameW},
        host \in HostLabels, port \in PortLabels, path \in PathLabels, ps \in PortSpecs}

\* c2: service a of project p; the same marked as roji itself; the same off
\* the shared network.
ConfigsC2 ==
    {Container(NamePA, Labels(NameP, NameA, self, <<>>, <<>>, <<>>),
               {<<56, 48>> \o SlashTcp}, {}, onNetwork, "10.0.0.2") :
        self \in {<<>>, TrueLabel}, onNetwork \in BOOLEAN}

\* c3: a container on its own, or a second replica of service w of project p.
ConfigsC3 ==
    {Container(NameS, Labels(project, IF project = <<>> THEN <<>> ELSE NameW,
                             <<>>, <<>>, <<>>, <<>>),
               {<<56, 48>> \o SlashTcp}, {}, TRUE, "10.0.0.3") :
        project \in {<<>>, NameP}}

InitDiscover ==
    /\ RouterInit
    /\ lastOp = InitOp
    /\ LockIdle
    /\ containers \in {[id \in ContainerIDs |->
                            CASE id = "c1" -> k1 [] id = "c2" -> k2 [] OTHER -> k3] :
                        k1 \in ConfigsC1, k2 \in ConfigsC2, k3 \in ConfigsC3}
    /\ running \in {ids \in SUBSET ContainerIDs : "c1" \in ids}
    /\ eventCh = <<>>
    /\ changes = 0
    /\ hpc = "discover"
    /\ hev = NoEvent
    /\ hb = NilBackend
    /\ todo = <<>>
    /\ refreshPre = <<>>
    /\ hpre = NoReceipt
    /\ handled = NoneHandled
    /\ served = NoRequest
    /\ WatchOff
    /\ CertsOff

NextDiscover == DiscoverExisting

SpecDiscover == InitDiscover /\ [][NextDiscover]_vars

----------------------------------------------------------------------------
(* proxy.Handler: the dispatcher.  The table is built by the Router calls, *)
(* then requests are served from it.                                       *)

\* Handler.dashboardHost: "r"
DashboardHost == <<114>>

\* "https", ", "
Https      == <<104, 116, 116, 112, 115>>
CommaSpace == <<44, 32>>

\* strings.LastIndex(s, c) for a one-byte c, counted from 1; 0 when absent.
LastIndex(s, c) ==
    LET at == {i \in 1..Len(s) : s[i] = c}
    IN IF at = {} THEN 0 ELSE CHOOSE i \in at : \A j \in at : i >= j

\* if idx := strings.LastIndex(x, ":"); idx != -1 { x = x[:idx] }
BeforeLastColon(x) ==
    IF LastIndex(x, 58) # 0 THEN SubSeq(x, 1, LastIndex(x, 58) - 1) ELSE x

\* http.Header: Get gives "" for a header that is not there.
HeaderGet(header, name) == IF name \in DOMAIN header THEN header[name] ELSE <<>>

\* The header names the requests carry or the dispatcher sets.
ForwardingHeaders ==
    {"X-Forwarded-For", "X-Real-IP", "X-Forwarded-Host", "X-Forwarded-Proto",
     "X-Forwarded-Port"}

\* The paths of the backends and requests here start with "/" or are empty;
\* the Director of httputil.NewSingleHostReverseProxy for a target without a
\* path joins "" and the request path with a single slash.
SingleJoiningSlash(path) == IF HasPrefix(path, <<47>>) THEN path ELSE <<47>> \o path

\* (a slip: an empty remainder left empty)
StripPathPrefixNoSlash(path, prefix) ==
    IF prefix # <<>> THEN TrimPrefix(path, prefix) ELSE path

\* The Director: strip the route's path prefix; "/" for an empty remainder.
StripPathPrefix(path, prefix) ==
    IF prefix # <<>>
    THEN IF TrimPrefix(path, prefix) = <<>> THEN <<47>> ELSE TrimPrefix(path, prefix)
    ELSE path

\* The Director: the X-Forwarded-* and X-Real-IP headers set on the outgoing
\* request, which starts as a copy of the client's.
DirectorHeader(r) ==
    LET h1 == MapPut(r.Header, "X-Forwarded-Host", r.Host)
        h2 == MapPut(h1, "X-Forwarded-Proto", Https)
        h3 == IF r.RemoteAddr # <<>> /\ LastIndex(r.RemoteAddr, 58) # 0
              THEN MapPut(h2, "X-Forwarded-For", BeforeLastColon(r.RemoteAddr))
              ELSE h2
    IN MapPut(h3, "X-Real-IP", HeaderGet(h3, "X-Forwarded-For"))

\* httputil.ReverseProxy.ServeHTTP after the Director: when the remote
\* address splits into host and port, the client address is appended to the
\* X-Forwarded-For the outgoing request has by then.
ReverseProxyHeader(header, r) ==
    IF LastIndex(r.RemoteAddr, 58) # 0
    THEN MapPut(header, "X-Forwarded-For",
                IF "X-Forwarded-For" \in DOMAIN header
                THEN header["X-Forwarded-For"] \o CommaSpace \o BeforeLastColon(r.RemoteAddr)
                ELSE BeforeLastColon(r.RemoteAddr))
    ELSE header

\* (a slip: the upstream error written to the client)
BadGatewayLeaky(err) == [status |-> 502, body |-> <<"Bad Gateway: ", err>>]

\* proxy.ErrorHandler: http.Error(w, "Bad Gateway", http.StatusBadGateway)
BadGateway(err) == [status |-> 502, body |-> <<"Bad Gateway", "\n">>]

\* (a slip: the Host header used as it came)
RequestHostnameVerbatim(r) == r.Host

\* Handler.ServeHTTP: the hostname of the request.
RequestHostname(r) == ToLower(BeforeLastColon(r.Host))

\* Host headers: "A", "a:443", "b", "R:443"
RequestHosts == {<<65>>, <<97, 58, 52, 52, 51>>, <<98>>, <<82, 58, 52, 52, 51>>}
\* URL paths: "/", "/a", "/ab"
RequestPaths == {PathRoot, PathA, PathAB}
\* Remote addresses: "9:5", "9"
RemoteAddrs == {<<57, 58, 53>>, <<57>>}
\* Forwarding headers a client sends, each with the value "6": none; one the
\* dispatcher sets itself; one it does not set; all of them.
ClientHeaders ==
    {[n \in names |-> <<54>>] :
        names \in {{}, {"X-Forwarded-For"}, {"X-Forwarded-Port"}, ForwardingHeaders}}

\* Requests: every host with every path, from "9:5" without forwarding headers;
\* and "/a" of host "a:443" from every remote address with every set of
\* client headers.
Requests ==
    {[Host |-> h, Path |-> path, RemoteAddr |-> <<57, 58, 53>>, Header |-> <<>>] :
        h \in RequestHosts, path \in RequestPaths}
    \cup
    {[Host |-> <<97, 58, 52, 52, 51>>, Path |-> PathA, RemoteAddr |-> a, Header |-> hd] :
        a \in RemoteAddrs, hd \in ClientHeaders}

\* What the round trip to the backend gives: a response, or an error.
Upstreams ==
    {[err |-> "", status |-> 200], [err |-> "", status |-> 500],
     [err |-> "dial tcp 10.0.0.1:80: connect: connection refused", status |-> 0]}

\* Backends of the dispatcher scenarios: c1 under host "A" with each prefix,
\* c2 as the default route of "A" and under the dashboard's own hostname.
ServeBackends ==
    {Backend("c1", HostUpperA, prefix) : prefix \in PathPrefixes}
        \cup {Backend("c2", HostUpperA, PathEmpty), Backend("c2", DashboardHost, PathEmpty)}

\* Handler.ServeHTTP with the reverse proxy it builds.  served records the
\* request, what was done with it, and the status of the response before.
ServeHTTP(r, upstream) ==
    LET hostname == RequestHostname(r)
        route    == Lookup(hostname, r.Path)
        before   == IF served = NoRequest THEN 0 ELSE served.status
    IN /\ served' =
            IF DashboardHost # <<>> /\ hostname = DashboardHost
            THEN [kind |-> "dashboard", r |-> r, upstream |-> upstream, status |-> 200,
                  before |-> before]
            ELSE IF route = NoRoute
            THEN [kind |-> "notfound", r |-> r, upstream |-> upstream, status |-> 404,
                  before |-> before]
            ELSE [kind     |-> "forward",
                  r        |-> r,
                  upstream |-> upstream,
                  route    |-> route,
                  target   |-> <<"http", "://", route.Backend.Host, ":", route.Backend.Port>>,
                  path     |-> StripPathPrefix(SingleJoiningSlash(r.Path), route.PathPrefix),
                  header   |-> ReverseProxyHeader(DirectorHeader(r), r),
                  status   |-> IF upstream.err # "" THEN BadGateway(upstream.err).status
                               ELSE upstream.status,
                  body     |-> IF upstream.err # "" THEN BadGateway(upstream.err).body
                               ELSE <<"upstream body">>,
                  before   |-> before]
       /\ UNCHANGED <<routes, pathRoutes, lastOp, lockVars, evVars, certVars, watchVars>>

\* The table is set up before the first request is served; after it the
\* client repeats its request.
NextServe ==
    \/ served = NoRequest /\ \E b \in ServeBackends : AddBackend(b)
    \/ \E r \in Requests, upstream \in Upstreams :
            (served # NoRequest => r = served.r) /\ ServeHTTP(r, upstream)

SpecServe == Init /\ [][NextServe]_vars

----------------------------------------------------------------------------
(* certgen.Generator at boot: EnsureCerts on a certificate directory *)

\* The CA a directory holds from an earlier run, and base domains.
OldCA       == generateCA("ca0")
BaseDomains == {Localhost, BaseDomain}

\* The certificate directories a boot finds: ca.pem and ca-key.pem each
\* absent, of the old CA, or other bytes; ca.crt absent or of the old CA;
\* cert.pem and key.pem each absent or externally provided bytes.
Directories ==
    {[path \in CertFiles |->
        CASE path = "ca.pem"     -> caCert
          [] path = "ca-key.pem" -> caKey
          [] path = CACrtPath    -> caCrt
          [] path = "cert.pem"   -> cert
          [] OTHER               -> key] :
        caCert \in {Absent, Bytes, Pem("CERTIFICATE", OldCA.cert)},
        caKey  \in {Absent, Bytes, Pem("EC PRIVATE KEY", OldCA.key)},
        caCrt  \in {Absent, Der(OldCA.cert)},
        cert   \in {Absent, Bytes},
        key    \in {Absent, Bytes}}

InitCerts ==
    /\ RouterInit
    /\ lastOp = InitOp
    /\ LockIdle
    /\ EventsOff
    /\ files \in Directories
    /\ generator \in {[baseDomain |-> b] : b \in BaseDomains}
    /\ ensured = NotEnsured

\* Generator.EnsureCerts, with the failure its steps may meet and the keys
\* its generations draw.
EnsureCerts ==
    \E fail \in FailPoints, caId \in FreshCAKeys, id \in FreshServerKeys :
        LET res == EnsureCertsResult(files, generator.baseDomain, fail, caId, id)
        IN /\ files' = res.files
           /\ ensured' = [pre |-> files, fail |-> fail, err |-> res.err]
           /\ UNCHANGED <<routes, pathRoutes, lastOp, lockVars, evVars, served, generator,
                         watchVars>>

NextCerts == EnsureCerts

SpecCerts == InitCerts /\ [][NextCerts]_vars

----------------------------------------------------------------------------
(* A discovery pass against an engine whose listing is not taken on trust, *)
(* and the start of the listeners in run after the initial pass.           *)

\* ContainerList has failed.
ListFailed == [err |-> TRUE, list |-> <<>>, gone |-> {}]

\* What the engine can answer during a pass for project ("" for all): the
\* list call fails; or it lists the running containers with the project
\* label, attached to the shared network or not, in some order, and any of
\* them has been removed by the time it is inspected (gone).
AnyAnswers(project) ==
    LET ids == {id \in running : project # <<>> => containers[id].Labels.project = project}
    IN {ListFailed}
       \cup UNION {{[err |-> FALSE, list |-> list, gone |-> gone] : gone \in SUBSET ids} :
                   list \in ListOrders(ids)}

\* Client.DiscoverBackends / Client.GetProjectBackends once the engine has
\* answered: (backends, err).
BackendsOfAnswer(a) ==
    IF a.err THEN {[err |-> TRUE, backends |-> <<>>]}
    ELSE {[err |-> FALSE, backends |-> bs] :
            bs \in BackendsOfListing(a.list, {a.list[i] : i \in 1..Len(a.list)}, a.gone)}

\* c1: service w of project p with the roji.port label unset or "x" and no
\* port, "80/tcp" exposed, or only the range "8-9/tcp" exposed.
PassConfigsC1 ==
    {Container(NamePW, Labels(NameP, NameW, <<>>, <<>>, port, <<>>),
               exposed, {}, TRUE, "10.0.0.1") :
        port \in {<<>>, <<120>>},
        exposed \in {{}, {<<56, 48>> \o SlashTcp}, {<<56, 45, 57>> \o SlashTcp}}}

InitPass ==
    /\ RouterInit
    /\ lastOp = InitOp
    /\ LockIdle
    /\ containers \in {[id \in ContainerIDs |->
                            CASE id = "c1" -> k1 [] id = "c2" -> k2 [] OTHER -> k3] :
                        k1 \in PassConfigsC1, k2 \in ConfigsC2, k3 \in ConfigsC3}
    /\ running \in {ids \in SUBSET ContainerIDs : {"c1", "c2"} \subseteq ids}
    /\ eventCh = <<>>
    /\ changes = 0
    /\ hpc = "discover"
    /\ hev = NoEvent
    /\ hb = NilBackend
    /\ todo = <<>>
    /\ refreshPre = <<>>
    /\ hpre = NoReceipt
    /\ handled = NoneHandled
    /\ served = NoRequest
    /\ WatchOff
    /\ CertsOff

\* discoverExisting, the answers of the engine recorded with the outcome.
\* run returns on an error, before the watcher and the servers are started.
DiscoverExistingAnswered ==
    /\ hpc = "discover"
    /\ \E a \in AnyAnswers(<<>>) : \E r \in BackendsOfAnswer(a) :
        /\ lastOp' = [op |-> "discoverExisting", answer |-> a,
                      err |-> r.err, backends |-> r.backends]
        /\ IF r.err
           THEN /\ hpc' = "exit"
                /\ UNCHANGED <<routes, pathRoutes>>
           ELSE /\ hpc' = "idle"
                /\ \E t \in AddAllResults(<<routes, pathRoutes>>, r.backends) :
                       /\ routes' = t[1]
                       /\ pathRoutes' = t[2]
    /\ UNCHANGED <<lockOnlyVars, containers, rresult, running, eventCh, changes, hev,
                   hb, todo, refreshPre, hpre, handled, served, certVars, watchVars>>

\* Client.GetProjectBackends as a handler calls it once the consumer runs,
\* the answers of the engine recorded with the outcome.  One call is
\* explored.
GetProjectBackends(project) ==
    /\ hpc = "idle"
    /\ wtpc # "off"
    /\ lastOp.op = "discoverExisting"
    /\ \E a \in AnyAnswers(project) : \E r \in BackendsOfAnswer(a) :
        lastOp' = [op |-> "GetProjectBackends", answer |-> a,
                   err |-> r.err, backends |-> r.backends]
    /\ UNCHANGED <<routes, pathRoutes, lockVars, evVars, served, certVars, watchVars>>

\* run: startHTTPServer and startHTTPSServer, after watcher.Watch; from then
\* on requests are served.
Listen(r, upstream) ==
    /\ wtpc # "off"
    /\ served = NoRequest
    /\ ServeHTTP(r, upstream)

NextPass ==
    \/ DiscoverExistingAnswered
    \/ W_Start
    \/ GetProjectBackends(NameP)
    \/ \E r \in {x \in Requests : x.Host = HostUpperA /\ x.Path = PathRoot},
          upstream \in {u \in Upstreams : u.status = 200} : Listen(r, upstream)

SpecPass == InitPass /\ [][NextPass]_vars

----------------------------------------------------------------------------
(* The observer and the consumer over a container whose roji.port label    *)
(* is any integer.                                                          *)

\* roji.port values: unset, "-1", "0", "1", "65535", "65536".
IntegerPortLabels ==
    {<<>>, <<45, 49>>, <<48>>, <<49>>, <<54, 53, 53, 51, 53>>, <<54, 53, 53, 51, 54>>}

\* c3, the standalone container, with each of the labels, exposing "80/tcp"
\* or nothing.
PortConfigsC3 ==
    {Container(NameS, Labels(<<>>, <<>>, <<>>, <<>>, port, <<>>),
               exposed, {}, TRUE, "10.0.0.3") :
        port \in IntegerPortLabels, exposed \in {{}, {<<56, 48>> \o SlashTcp}}}

InitPorts ==
    /\ RouterInit
    /\ lastOp = InitOp
    /\ LockIdle
    /\ containers \in {[DefaultContainers EXCEPT !["c3"] = k3] : k3 \in PortConfigsC3}
    /\ running \in SUBSET ContainerIDs
    /\ eventCh = <<>>
    /\ changes = 0
    /\ hpc = "discover"
    /\ hev = NoEvent
    /\ hb = NilBackend
    /\ todo = <<>>
    /\ refreshPre = <<>>
    /\ hpre = NoReceipt
    /\ handled = NoneHandled
    /\ served = NoRequest
    /\ WatchOff
    /\ CertsOff

SpecPorts == InitPorts /\ [][NextHandling]_vars

----------------------------------------------------------------------------
(* The observer and the consumer with an engine that answers every call,   *)
(* over containers that may resolve to the same hostname.                  *)

\* The containers as before; c3 on its own with the roji.host label "p.d",
\* the hostname of project p while it has one service; c2 without a port;
\* c2 off the shared network.
CollideConfigs ==
    {DefaultContainers,
     [DefaultContainers EXCEPT !["c3"].Labels.host = DefaultHostname(NameP, BaseDomain)],
     [DefaultContainers EXCEPT !["c2"].ExposedPorts = {}],
     [DefaultContainers EXCEPT !["c2"].OnNetwork = FALSE]}

\* Those, and: c3 as a second replica of service w of project p; c1 and c2
\* both with the roji.host label "x.d"; c2 marked as roji itself.
ConvergeConfigs ==
    CollideConfigs \cup
    {[DefaultContainers EXCEPT !["c3"].Labels.project = NameP,
                               !["c3"].Labels.service = NameW],
     [DefaultContainers EXCEPT !["c1"].Labels.host = <<120, 46, 100>>,
                               !["c2"].Labels.host = <<120, 46, 100>>],
     [DefaultContainers EXCEPT !["c2"].Labels.self = TrueLabel]}

InitConverge ==
    /\ RouterInit
    /\ lastOp = InitOp
    /\ LockIdle
    /\ containers \in ConvergeConfigs
    /\ running \in {{"c1"}, {"c1", "c3"}, ContainerIDs}
    /\ eventCh = <<>>
    /\ changes = 0
    /\ hpc = "discover"
    /\ hev = NoEvent
    /\ hb = NilBackend
    /\ todo = <<>>
    /\ refreshPre = <<>>
    /\ hpre = NoReceipt
    /\ handled = NoneHandled
    /\ served = NoRequest
    /\ WatchOff
    /\ CertsOff

\* What GetBackend returns for container id when its engine calls succeed.
GetBackendAnswered(id) == {r.backend : r \in {x \in GetBackendResults(id) : ~x.err}}

\* The scan and the handlers while ContainerList and ContainerInspect
\* succeed: a container that has stopped is still there to be inspected.
NextConverge ==
    \/ DiscoverExisting /\ ~lastOp'.err
    \/ \E id \in ContainerIDs : EngineStart(id)
    \/ \E id \in ContainerIDs : EngineStop(id)
    \/ H_Receive
    \/ H_StartGetBackend /\ (IF hpc' = "idle" THEN NilBackend ELSE hb')
                                \in GetBackendAnswered(hev.ContainerID)
    \/ H_AddOne
    \/ H_StopGetBackend /\ hb' \in GetBackendAnswered(hev.ContainerID)
    \/ H_RemoveBackend
    \/ H_RemoveProject
    \/ H_GetProjectBackends /\ handled'.outcome # "list_failed"
    \/ H_AddNext

SpecConverge == InitConverge /\ [][NextConverge]_vars

\* Colliding and unroutable containers with an engine whose calls may fail.
InitCollide ==
    /\ RouterInit
    /\ lastOp = InitOp
    /\ LockIdle
    /\ containers \in CollideConfigs
    /\ running \in {{"c1"}, ContainerIDs}
    /\ eventCh = <<>>
    /\ changes = 0
    /\ hpc = "discover"
    /\ hev = NoEvent
    /\ hb = NilBackend
    /\ todo = <<>>
    /\ refreshPre = <<>>
    /\ hpre = NoReceipt
    /\ handled = NoneHandled
    /\ served = NoRequest
    /\ WatchOff
    /\ CertsOff

SpecCollide == InitCollide /\ [][NextHandling]_vars

----------------------------------------------------------------------------
(* C1 *)

\* C1: longest-prefix match.  In every state the table can reach through
\* AddBackend/RemoveBackend/RemoveProject, for every hostname H and path P:
\* if some route of H has a prefix that is a prefix of P, Lookup(H, P) returns
\* a route of H whose prefix is a prefix of P and no matching route of H has a
\* strictly longer prefix (so a route with empty prefix is returned only when
\* no path-prefixed route of H matches P); otherwise it returns nil.
C1_LongestPrefixMatch ==
    \A H \in LookupHosts, P \in LookupPaths :
        LET r == Lookup(H, P)
            m == Matching(ToLower(H), P)
        IN IF m = {} THEN r = NoRoute
           ELSE /\ \E e \in m : e[2] = r
                /\ \A e \in m : Len(e[2].PathPrefix) <= Len(r.PathPrefix)
                /\ r.PathPrefix = <<>> => \A e \in m : e[1] = 0

\* Host a holds a default route, a route for "/" and a route for "/a"; the
\* lookup of "/a/b" is answered by the "/a" route and that of "/b" by "/".
C1_Witness ==
    /\ HostLowerA \in DOMAIN routes
    /\ HostLowerA \in DOMAIN pathRoutes
    /\ \E i, j \in 1..Len(pathRoutes[HostLowerA]) :
        /\ pathRoutes[HostLowerA][i].PathPrefix = PathA
        /\ pathRoutes[HostLowerA][j].PathPrefix = PathRoot
    /\ Lookup(HostUpperA, PathASubB).PathPrefix = PathA
    /\ Lookup(HostUpperA, PathB).PathPrefix = PathRoot

----------------------------------------------------------------------------
(* C2 *)

\* The entries of key h, other than those of backend b, whose prefix is a
\* prefix of path and at least as long as b's.
Competitors(h, b, path) ==
    {e \in Matching(h, path) :
        e[2].Backend # b /\ Len(e[2].PathPrefix) >= Len(b.PathPrefix)}

----------------------------------------------------------------------------
(* C3 *)

\* C3: no two routes of the table have the same (hostname, path_prefix).
C3_RouteKeysUnique ==
    \A e1, e2 \in TableEntries :
        (e1[1] = e2[1] /\ e1[3].PathPrefix = e2[3].PathPrefix) => e1[2] = e2[2]

----------------------------------------------------------------------------
(* C4 *)

HasRouteOfContainer(rs, prs, id) ==
    \E e \in AllEntries(rs, prs) : e[3].Backend.ContainerID = id

\* C4: after RemoveBackend(id) no route of the table, in either index, has a
\* backend with that container id, so no Lookup(h, p) returns one; and a
\* container id without routes stays without routes across every step that
\* is not an AddBackend of a backend with that id.
C4_RemovedContainerNotRouted ==
    [][/\ lastOp'.op = "RemoveBackend" =>
            /\ ~HasRouteOfContainer(routes', pathRoutes', lastOp'.id)
            /\ \A H \in LookupHosts, P \in LookupPaths :
                LookupIn(routes', pathRoutes', H, P).Backend.ContainerID # lastOp'.id
       /\ \A id \in ContainerIDs :
            (/\ ~HasRouteOfContainer(routes, pathRoutes, id)
             /\ ~(lastOp'.op = "AddBackend" /\ lastOp'.backend.ContainerID = id))
                => ~HasRouteOfContainer(routes', pathRoutes', id)]_vars

\* RemoveBackend has just run for a container, and another container's routes
\* (a default route and a path route) are still in the table.
C4_Witness ==
    /\ lastOp.op = "RemoveBackend"
    /\ \E e1, e2 \in TableEntries : e1[2] = 0 /\ e2[2] > 0
    /\ ~HasRouteOfContainer(routes, pathRoutes, lastOp.id)

----------------------------------------------------------------------------
(* C5 *)

\* C5: after RemoveProject(name) no route of either index has a backend with
\* ProjectName = name: ListRoutes returns one entry per remaining route, each
\* the RouteInfo of a route of another project, and no Lookup returns a route
\* of that project.
C5_RemovedProjectNotListed ==
    lastOp.op = "RemoveProject" =>
        /\ \A e \in TableEntries : e[3].Backend.ProjectName # lastOp.project
        /\ \A l \in ListRoutesResults(routes, pathRoutes) :
            /\ Len(l) = Cardinality(TableEntries)
            /\ \A i \in 1..Len(l) :
                \E e \in TableEntries :
                    /\ l[i] = RouteInfo(e[3])
                    /\ e[3].Backend.ProjectName # lastOp.project
        /\ \A H \in LookupHosts, P \in LookupPaths :
            \/ Lookup(H, P) = NoRoute
            \/ Lookup(H, P).Backend.ProjectName # lastOp.project

\* RemoveProject("p") has just dropped routes of p, among them a path route,
\* and routes of the standalone container are still listed.
C5_Witness ==
    /\ lastOp.op = "RemoveProject"
    /\ lastOp.project = NameP
    /\ lastOp.dropped >= 2
    /\ TableEntries # {}

----------------------------------------------------------------------------
(* C6 *)

KeptByContainer(s, id) == SelectSeq(s, LAMBDA r : r.Backend.ContainerID # id)
KeptByProject(s, name) == SelectSeq(s, LAMBDA r : r.Backend.ProjectName # name)

\* C6: removal frame.  RemoveBackend(id) leaves every default route of another
\* container in place and, in every host's path list, the routes of other
\* containers with the same backends in the same order; RemoveProject(name)
\* does the same for the routes of other projects.
C6_RemovalFrame ==
    [][/\ lastOp'.op = "RemoveBackend" =>
            /\ \A h \in DOMAIN routes :
                routes[h].Backend.ContainerID # lastOp'.id =>
                    h \in DOMAIN routes' /\ routes'[h] = routes[h]
            /\ \A h \in DOMAIN pathRoutes :
                KeptByContainer(pathRoutes[h], lastOp'.id)
                    = KeptByContainer(PathList(pathRoutes', h), lastOp'.id)
       /\ lastOp'.op = "RemoveProject" =>
            /\ \A h \in DOMAIN routes :
                routes[h].Backend.ProjectName # lastOp'.project =>
                    h \in DOMAIN routes' /\ routes'[h] = routes[h]
            /\ \A h \in DOMAIN pathRoutes :
                KeptByProject(pathRoutes[h], lastOp'.project)
                    = KeptByProject(PathList(pathRoutes', h), lastOp'.project)]_vars

\* A removal has just dropped a route and a host still holds a path list of
\* two routes of other owners.
C6_Witness ==
    /\ lastOp.op \in {"RemoveBackend", "RemoveProject"}
    /\ lastOp.dropped >= 1
    /\ \E h \in DOMAIN pathRoutes : Len(pathRoutes[h]) >= 2

----------------------------------------------------------------------------
(* C7 *)

\* C7: Lookup is case-insensitive on the hostname.  Every key of both indices
\* and every stored Route.Hostname is the lowercased hostname of its backend;
\* every case variant of a hostname gets the route the lowercase hostname
\* gets; and a backend whose route is in the table is found under every case
\* variant of the hostname it was added with.
C7_CaseInsensitiveLookup ==
    /\ \A e \in TableEntries :
        /\ e[1] = ToLower(e[3].Backend.Hostname)
        /\ e[3].Hostname = e[1]
        /\ \A H \in LookupHosts :
            ToLower(H) = ToLower(e[3].Backend.Hostname) =>
                \A P \in LookupPaths :
                    HasPrefix(P, e[3].PathPrefix) => Lookup(H, P) # NoRoute
    /\ \A H \in LookupHosts, P \in LookupPaths :
        Lookup(H, P) = Lookup(ToLower(H), P)

\* A backend added with the upper-case hostname "A" is routed, and "a" and
\* "A" get the same route.
C7_Witness ==
    /\ \E e \in TableEntries : e[3].Backend.Hostname = HostUpperA
    /\ Lookup(HostLowerA, PathRoot) # NoRoute
    /\ Lookup(HostLowerA, PathRoot) = Lookup(HostUpperA, PathRoot)

----------------------------------------------------------------------------
(* C8 *)

StrLessEq(a, b) == a = b \/ StrLess(a, b)

\* One-to-one assignments of the positions of list l to the routes of the table.
Pairings(l) ==
    {f \in [1..Len(l) -> TableEntries] : \A i, j \in 1..Len(l) : f[i] = f[j] => i = j}

\* C8: a ListRoutes call returns a list with exactly one entry per route of
\* the table (default and path-prefixed) at the time of the call, each entry
\* carrying the route's hostname and prefix and its backend's target, container
\* name and service name, ordered by hostname ascending and then by path prefix
\* ascending; and no later step of the mutating goroutine changes a list that
\* was returned.
C8_ListRoutesSnapshot ==
    [][/\ (rpc = "locked" /\ rpc' = "read" /\ rresult'.op = "ListRoutes") =>
            LET l == rresult'.infos IN
            /\ Len(l) = Cardinality(TableEntries)
            /\ \E f \in Pairings(l) : \A i \in 1..Len(l) :
                /\ l[i].Hostname = f[i][3].Hostname
                /\ l[i].PathPrefix = f[i][3].PathPrefix
                /\ l[i].Target = <<f[i][3].Backend.Host, ":", f[i][3].Backend.Port>>
                /\ l[i].ContainerName = f[i][3].Backend.ContainerName
                /\ l[i].ServiceName = f[i][3].Backend.ServiceName
            /\ \A i, j \in 1..Len(l) :
                i < j =>
                    /\ StrLessEq(l[i].Hostname, l[j].Hostname)
                    /\ l[i].Hostname = l[j].Hostname =>
                        StrLessEq(l[i].PathPrefix, l[j].PathPrefix)
       /\ ~(rpc = "locked" /\ rpc' = "read") => rresult' = rresult]_vars

\* A returned list of two entries, a path route among them, over two
\* hostnames, still held while the table has since lost a route.
C8_Witness ==
    /\ rresult.op = "ListRoutes"
    /\ Len(rresult.infos) = 2
    /\ rresult.infos[1].Hostname # rresult.infos[2].Hostname
    /\ \E i \in 1..2 : rresult.infos[i].PathPrefix # <<>>
    /\ Cardinality(TableEntries) < 2

----------------------------------------------------------------------------
(* C9 *)

\* C9: every Lookup and ListRoutes reads a table that is either the table
\* before the mutating call that is in progress or a table that call leaves;
\* while a reader is inside its call no mutating call is between its Lock and
\* its Unlock.
C9_ReadersSeeNoTornTable ==
    /\ rresult # NoResult => ~rresult.torn
    /\ rpc # "idle" => wpc = "idle" /\ <<routes, pathRoutes>> = committed

\* A reader is inside Lookup while the table holds routes, after the writer
\* has completed calls and with one more call still to come.
C9_Witness ==
    /\ rpc = "read"
    /\ rresult.op = "Lookup"
    /\ rresult.route # NoRoute
    /\ writes = 2
    /\ Cardinality(TableEntries) = 2

----------------------------------------------------------------------------
(* C10 *)

\* C10: a project refresh replaces the project's routes atomically.  A Lookup
\* made while a refresh is under way (after its RemoveProject, before the last
\* AddBackend of the listed backends) returns what it returns on the table
\* the refresh began with or on a table the refresh ends with.
C10_RefreshIsAtomic ==
    (rresult # NoResult /\ rresult.mid) =>
        (rresult.route = rresult.pre \/ rresult.route \in rresult.posts)

----------------------------------------------------------------------------
(* C11 *)

\* "p.d", "w.p.d", "a.p.d", "s.d"
HostP  == DefaultHostname(NameP, BaseDomain)
HostWP == DefaultHostname(NameW \o <<46>> \o NameP, BaseDomain)
HostAP == DefaultHostname(NameA \o <<46>> \o NameP, BaseDomain)
HostS  == DefaultHostname(NameS, BaseDomain)

\* Table t routes hostname h to container id by a default route.
RoutesTo(t, h, id) == h \in DOMAIN t[1] /\ t[1][h].Backend.ContainerID = id

\* Table t has no route, default or by path, under hostname h.
NoRouteUnder(t, h) == h \notin DOMAIN t[1] /\ h \notin DOMAIN t[2]

\* The start event of c2 (service a of project p) has just been handled
\* through a project refresh; when it was received the table routed of p only
\* c1 (service w), as p.d; both were running and the engine stood still
\* while the event was handled.
C11_ScaledUp ==
    /\ hpc = "idle"
    /\ handled.outcome = "refreshed"
    /\ handled.event = [Type |-> "EventStart", ContainerID |-> "c2"]
    /\ handled.quiet
    /\ {"c1", "c2"} \subseteq handled.engine
    /\ RoutesTo(handled.pre, HostP, "c1")
    /\ NoRouteUnder(handled.pre, HostWP)
    /\ NoRouteUnder(handled.pre, HostAP)

\* C11: project refresh on scale.  When project p is routed with the single
\* service w as p.d and the start event of a second service a of p has been
\* handled (every engine call succeeding), the table routes w.p.d to w and
\* a.p.d to a and has no route under p.d.
C11_RefreshOnScale ==
    C11_ScaledUp =>
        /\ RoutesTo(<<routes, pathRoutes>>, HostWP, "c1")
        /\ RoutesTo(<<routes, pathRoutes>>, HostAP, "c2")
        /\ NoRouteUnder(<<routes, pathRoutes>>, HostP)

C11_Witness ==
    /\ C11_ScaledUp
    /\ RoutesTo(<<routes, pathRoutes>>, HostWP, "c1")
    /\ RoutesTo(<<routes, pathRoutes>>, HostAP, "c2")
    /\ NoRouteUnder(<<routes, pathRoutes>>, HostP)

----------------------------------------------------------------------------
(* C12 *)

\* The initial scan has run and succeeded.
Scanned == lastOp.op = "discoverExisting" /\ ~lastOp.err

\* The containers of project that the scan listed, roji itself left out.
ListedMembers(project) ==
    {id \in running : /\ containers[id].OnNetwork
                      /\ containers[id].Labels.self # TrueLabel
                      /\ containers[id].Labels.project = project}

\* Backend b of the scan comes from a container without a host label.
Unlabelled(b) == TrimSpace(containers[b.ContainerID].Labels.host) = <<>>

----------------------------------------------------------------------------
(* C13 *)

\* The hostname the resolver policy gives container id in the scan.
PolicyHostname(id) ==
    LET l == containers[id].Labels
        name == SubSeq(containers[id].Name, 2, Len(containers[id].Name))
    IN IF l.project # <<>> /\ l.service # <<>>
       THEN IF Cardinality(ListedMembers(l.project)) >= 2
            THEN l.service \o <<46>> \o l.project \o <<46>> \o BaseDomain
            ELSE l.project \o <<46>> \o BaseDomain
       ELSE name \o <<46>> \o BaseDomain

\* The hostname keys under which the table holds a route of container id.
KeysOfContainer(id) == {e[1] : e \in {x \in TableEntries : x[3].Backend.ContainerID = id}}

\* " X.d " trimmed and lowercased: "x.d"
HostXLower == <<120, 46, 100>>

\* C13: the host label override.  After the scan, a backend whose container
\* has a roji.host label that is not empty once trimmed carries exactly the
\* trimmed label as its hostname, whatever its compose labels, name and
\* project count, and the table holds it under the lowercased label and under
\* no other key; a backend whose label is empty or white space carries the
\* hostname of the resolver policy.
C13_HostLabelOverride ==
    Scanned =>
        \A i \in 1..Len(lastOp.backends) :
            LET b     == lastOp.backends[i]
                label == containers[b.ContainerID].Labels.host
            IN IF TrimSpace(label) # <<>>
               THEN /\ b.Hostname = TrimSpace(label)
                    /\ KeysOfContainer(b.ContainerID) = {ToLower(TrimSpace(label))}
                    /\ \A e \in TableEntries :
                         e[3].Backend.ContainerID = b.ContainerID =>
                            e[3].Hostname = ToLower(TrimSpace(label))
               ELSE b.Hostname = PolicyHostname(b.ContainerID)

\* The scan routed c1, a service of project p labelled roji.host=" X.d ",
\* under "x.d", next to a sibling routed by the policy.
C13_Witness ==
    /\ Scanned
    /\ containers["c1"].Labels.host = <<32, 88, 46, 100, 32>>
    /\ containers["c1"].Labels.project = NameP
    /\ KeysOfContainer("c1") = {HostXLower}
    /\ KeysOfContainer("c2") # {}

----------------------------------------------------------------------------
(* C14 *)

\* s has a ".." segment: ".." bounded on each side by "/" or an end of s.
HasDotDotSegment(s) ==
    \E i \in 1..Len(s) - 1 :
        /\ s[i] = 46 /\ s[i + 1] = 46
        /\ i = 1 \/ s[i - 1] = 47
        /\ i + 1 = Len(s) \/ s[i + 2] = 47

\* C14: path-traversal rejection.  After the scan, a backend whose container
\* has a roji.path label with a ".." segment has an empty PathPrefix, and the
\* table holds that container as the default route of its host only.
C14_PathTraversalRejected ==
    Scanned =>
        \A i \in 1..Len(lastOp.backends) :
            LET b == lastOp.backends[i]
            IN HasDotDotSegment(TrimSpace(containers[b.ContainerID].Labels.path)) =>
                /\ b.PathPrefix = <<>>
                /\ \A e \in TableEntries :
                     e[3].Backend.ContainerID = b.ContainerID => e[2] = 0

----------------------------------------------------------------------------
(* C15 *)

\* The entries of hostname key h that are default routes when "/" and ""
\* both mean the default route.
DefaultSlot(h) ==
    {e \in EntriesOf(routes, pathRoutes, h) : e[2].PathPrefix \in {PathEmpty, PathRoot}}

\* C15: "/" and "" are the same slot.  In every table AddBackend,
\* RemoveBackend and RemoveProject can build, a hostname has at most one
\* route whose prefix is "/" or empty (the later add replaced the earlier),
\* so Lookup cannot depend on which of the two spellings a backend used.
C15_RootAndEmptyShareSlot ==
    \A h \in Keys(routes, pathRoutes) : Cardinality(DefaultSlot(h)) <= 1

----------------------------------------------------------------------------
(* C16 *)

\* The containers the scan lists and does not skip as roji itself.
Candidates ==
    {id \in running : containers[id].OnNetwork /\ containers[id].Labels.self # TrueLabel}

\* The ports of the backends the scan built for container id, one per backend.
BackendPortsOf(id) ==
    {<<i, lastOp.backends[i].Port>> :
        i \in {j \in 1..Len(lastOp.backends) : lastOp.backends[j].ContainerID = id}}

\* The roji.port label of container id is set and is not a decimal integer.
PortLabelMalformed(id) ==
    /\ containers[id].Labels.port # <<>>
    /\ Atoi(TrimSpace(containers[id].Labels.port)).err

\* C16: a malformed port label never blocks routing.  After the scan, a
\* container whose roji.port label is not a decimal integer has exactly one
\* backend, with a port of its exposed port specs when one of them is numeric,
\* else a port of its published port specs when one of them is numeric; it
\* has no backend only when neither gives a port; and every other candidate
\* container that has a port of its own has exactly one backend.
C16_MalformedPortFallsBack ==
    Scanned =>
        \A id \in Candidates :
            PortLabelMalformed(id) =>
                /\ IF ParseablePorts(containers[id].ExposedPorts) # {}
                   THEN \E port \in ParseablePorts(containers[id].ExposedPorts) :
                            {e[2] : e \in BackendPortsOf(id)} = {port}
                   ELSE IF ParseablePorts(containers[id].Ports) # {}
                   THEN \E port \in ParseablePorts(containers[id].Ports) :
                            {e[2] : e \in BackendPortsOf(id)} = {port}
                   ELSE BackendPortsOf(id) = {}
                /\ Cardinality(BackendPortsOf(id)) <= 1
                /\ \A other \in Candidates \ {id} :
                     ~PortLabelMalformed(other)
                       /\ ParseablePorts(containers[other].ExposedPorts) # {}
                       => Cardinality(BackendPortsOf(other)) = 1

\* The scan took c1, labelled roji.port="x" and exposing only a port range,
\* with its published port 90, and c2 beside it.
C16_Witness ==
    /\ Scanned
    /\ containers["c1"].Labels.port = <<120>>
    /\ {e[2] : e \in BackendPortsOf("c1")} = {90}
    /\ Cardinality(BackendPortsOf("c2")) = 1

(* C17 *)
\* The Host header without a ":port" suffix: what stands before the last
\* colon, or the whole value when it has none.
HostWithoutPort(host) ==
    IF \E i \in 1..Len(host) : host[i] = 58
    THEN CHOOSE h \in {SubSeq(host, 1, i - 1) : i \in 1..Len(host)} :
            \E port \in {SubSeq(host, i, Len(host)) : i \in 1..(Len(host) + 1)} :
                /\ host = h \o <<58>> \o port
                /\ \A i \in 1..Len(port) : port[i] # 58
    ELSE host

\* The host a request is classified by.
ClassifiedHost(r) == ToLower(HostWithoutPort(r.Host))

\* C17: every request served gets exactly one of three outcomes, decided by
\* its Host header lowercased and without its port: the dashboard iff that
\* host is the dashboard host, whether or not a route of that hostname
\* exists; otherwise 404 iff Lookup(host, path) finds no route; otherwise it
\* is forwarded to http://Host:Port of the backend that Lookup returns.
C17_RequestClassification ==
    served # NoRequest =>
        LET host  == ClassifiedHost(served.r)
            found == Lookup(host, served.r.Path)
        IN /\ served.kind \in {"dashboard", "notfound", "forward"}
           /\ served.kind = "dashboard" <=> host = DashboardHost
           /\ host # DashboardHost => (served.kind = "notfound" <=> found = NoRoute)
           /\ served.kind = "notfound" => served.status = 404
           /\ served.kind = "forward" =>
                /\ served.route = found
                /\ served.target =
                        <<"http", "://", found.Backend.Host, ":", found.Backend.Port>>

\* The dashboard is served for "R:443" while the table has a route of the
\* hostname "r".
C17_Witness ==
    /\ served # NoRequest
    /\ served.kind = "dashboard"
    /\ served.r.Host = <<82, 58, 52, 52, 51>>
    /\ Lookup(DashboardHost, served.r.Path) # NoRoute

\* A request for "a:443" is forwarded to the backend of the route "a".
C17_WitnessForwarded ==
    /\ served # NoRequest
    /\ served.kind = "forward"
    /\ served.r.Host = <<97, 58, 52, 52, 51>>
    /\ served.route.Backend.ContainerID = "c1"

\* A request for "b" finds no route.
C17_WitnessNotFound ==
    /\ served # NoRequest
    /\ served.kind = "notfound"
    /\ served.r.Host = <<98>>

(* C18 *)
\* C18: a request forwarded by a route with a non-empty path prefix reaches
\* the backend with that prefix removed from the start of its path, and with
\* "/" when nothing is left; by a route with an empty prefix, with its path
\* unchanged.
C18_PrefixStripping ==
    (served # NoRequest /\ served.kind = "forward") =>
        LET prefix == served.route.PathPrefix
            path   == served.r.Path
        IN IF prefix # <<>>
           THEN /\ HasPrefix(path, prefix)
                /\ IF path = prefix
                   THEN served.path = <<47>>
                   ELSE path = prefix \o served.path
           ELSE served.path = path

\* "/a" forwarded by the route of prefix "/a": the backend is asked for "/".
C18_Witness ==
    /\ served # NoRequest
    /\ served.kind = "forward"
    /\ served.route.PathPrefix = PathA
    /\ served.r.Path = PathA
    /\ served.path = <<47>>

\* "/ab" forwarded by the route of prefix "/a": the backend is asked for "b".
C18_WitnessRemainder ==
    /\ served # NoRequest
    /\ served.kind = "forward"
    /\ served.route.PathPrefix = PathA
    /\ served.r.Path = PathAB
    /\ served.path = <<98>>

\* "/a" forwarded by a default route: the backend is asked for "/a".
C18_WitnessUnchanged ==
    /\ served # NoRequest
    /\ served.kind = "forward"
    /\ served.route.PathPrefix = <<>>
    /\ served.r.Path = PathA
    /\ served.path = PathA

(* C19 *)
\* The client IP: the remote address without its port part.
ClientIP(r) == HostWithoutPort(r.RemoteAddr)

\* The forwarding headers of a header set.
ForwardedOf(header) ==
    [n \in DOMAIN header \cap ForwardingHeaders |-> header[n]]

\* The forwarding headers the backend is to receive for a request.
ExpectedForwarded(r) ==
    [n \in {"X-Forwarded-Host", "X-Forwarded-Proto", "X-Forwarded-For", "X-Real-IP"} |->
        CASE n = "X-Forwarded-Host"  -> r.Host
          [] n = "X-Forwarded-Proto" -> Https
          [] OTHER                   -> ClientIP(r)]

\* The same request as the client sends it without any forwarding header.
WithoutClientHeaders(r) == [r EXCEPT !.Header = <<>>]

\* C19: the forwarding headers a backend receives do not depend on the
\* forwarding headers the client sent: they are those of the same request
\* sent without any, and they are X-Forwarded-Host = the Host header,
\* X-Forwarded-Proto = https, X-Forwarded-For = X-Real-IP = the client IP.
C19_ForwardingHeaderNonInterference ==
    (served # NoRequest /\ served.kind = "forward") =>
        /\ ForwardedOf(served.header)
                = ForwardedOf(ReverseProxyHeader(
                        DirectorHeader(WithoutClientHeaders(served.r)),
                        WithoutClientHeaders(served.r)))
        /\ ForwardedOf(served.header) = ExpectedForwarded(served.r)

\* A header the dispatcher does not set reaches the backend as the client
\* sent it.
C19_ClientHeaderPassedOn ==
    /\ served # NoRequest
    /\ served.kind = "forward"
    /\ served.r.Header = [n \in {"X-Forwarded-Port"} |-> <<54>>]
    /\ HeaderGet(served.header, "X-Forwarded-Port") = <<54>>

\* From a remote address without a port the client's X-Forwarded-For is
\* what the backend receives as X-Forwarded-For and as X-Real-IP.
C19_ClientChoosesRealIP ==
    /\ served # NoRequest
    /\ served.kind = "forward"
    /\ served.r.RemoteAddr = <<57>>
    /\ served.r.Header = [n \in {"X-Forwarded-For"} |-> <<54>>]
    /\ HeaderGet(served.header, "X-Forwarded-For") = <<54>>
    /\ HeaderGet(served.header, "X-Real-IP") = <<54>>

(* C20 *)
\* The request served failed on its way to the backend.
UpstreamFailed == served # NoRequest /\ served.kind = "forward" /\ served.upstream.err # ""

\* The answer to a failed forward: 502, a fixed body without the error text.
FixedBadGateway ==
    UpstreamFailed =>
        /\ served.status = 502
        /\ served.body = <<"Bad Gateway", "\n">>
        /\ \A i \in 1..Len(served.body) : served.body[i] # served.upstream.err

\* A request is looked up and attempted for itself, whatever the one before
\* it came to: its route is the one Lookup gives now, and its status the one
\* its own round trip gives.
ServedIndependently ==
    (served # NoRequest /\ served.kind = "forward") =>
        /\ served.route = Lookup(ClassifiedHost(served.r), served.r.Path)
        /\ served.upstream.err = "" => served.status = served.upstream.status

\* Serving a request leaves the routing table as it was.
ServingKeepsTable == served' # served => (routes' = routes /\ pathRoutes' = pathRoutes)

\* C20: an error while forwarding gives the client 502 with a fixed body that
\* has no part of the upstream error text, the routing table is left
\* unchanged, and the following request to the same host is looked up and
\* attempted independently.
C20_UpstreamFailureRecoverable ==
    /\ [](FixedBadGateway /\ ServedIndependently)
    /\ [][ServingKeepsTable]_vars

\* The request that got 502 is repeated and answered by the backend.
C20_Witness ==
    /\ served # NoRequest
    /\ served.kind = "forward"
    /\ served.before = 502
    /\ served.upstream.err = ""
    /\ served.status = 200

\* The request failed and the client got 502.
C20_WitnessFailed ==
    /\ UpstreamFailed
    /\ served.status = 502

(* C21 *)
\* An EnsureCerts has been called on a directory.
Ensured == ensured # NotEnsured

\* The directory had both cert.pem and key.pem.
HadServerPair(fs) == fs["cert.pem"] # Absent /\ fs["key.pem"] # Absent

\* With both cert.pem and key.pem there, EnsureCerts succeeds and every
\* file is as it was, a file that was absent still absent.
AdoptedAsIs ==
    (Ensured /\ HadServerPair(ensured.pre)) => (ensured.err = "" /\ files = ensured.pre)

\* After a successful EnsureCerts the next one succeeds and changes no file.
SecondIsNoOp ==
    (Ensured /\ ensured.err = "") =>
        /\ files' = files
        /\ ensured' # ensured => (ensured'.err = "" /\ ensured'.pre = files)

\* C21: EnsureCerts on a directory that has cert.pem and key.pem returns
\* success and leaves every file as it was, creating no ca.pem, ca-key.pem or
\* ca.crt; so an EnsureCerts after a successful one is a no-op.
C21_ExistingCertsUntouched == []AdoptedAsIs /\ [][SecondIsNoOp]_vars

\* An EnsureCerts that issued the certificates was followed by a second one,
\* which found them and changed nothing.
C21_Witness ==
    /\ Ensured
    /\ ensured.err = ""
    /\ ensured.pre["cert.pem"].kind = "pem"
    /\ ensured.pre["key.pem"].kind = "pem"
    /\ files = ensured.pre

\* Externally provided cert.pem and key.pem in a directory without a CA are
\* adopted and no CA file appears.
C21_WitnessExternal ==
    /\ Ensured
    /\ ensured.err = ""
    /\ ensured.pre["cert.pem"] = Bytes
    /\ ensured.pre["key.pem"] = Bytes
    /\ \A path \in {"ca.pem", "ca-key.pem", CACrtPath} : files[path] = Absent

(* C22 *)
\* Exactly one of cert.pem and key.pem was there.
HalfServerPair(fs) == (fs["cert.pem"] # Absent) # (fs["key.pem"] # Absent)

\* Neither cert.pem nor key.pem was there, and exactly one of ca.pem and
\* ca-key.pem.
HalfCAPair(fs) ==
    /\ fs["cert.pem"] = Absent
    /\ fs["key.pem"] = Absent
    /\ (fs["ca.pem"] # Absent) # (fs["ca-key.pem"] # Absent)

\* C22: with exactly one of cert.pem and key.pem, or with neither of them and
\* exactly one of ca.pem and ca-key.pem, EnsureCerts returns an error and no
\* file is created, overwritten or deleted.
C22_HalfPresentIsFatal ==
    (Ensured /\ (HalfServerPair(ensured.pre) \/ HalfCAPair(ensured.pre))) =>
        (ensured.err \notin {"", "none"} /\ files = ensured.pre)

\* EnsureCerts failed on a directory with ca.pem and no ca-key.pem.
C22_Witness ==
    /\ Ensured
    /\ HalfCAPair(ensured.pre)
    /\ ensured.pre["ca.pem"] # Absent
    /\ ensured.fail = NoFailure
    /\ ensured.err = "incomplete CA setup"

\* EnsureCerts failed on a directory with key.pem and no cert.pem.
C22_WitnessServer ==
    /\ Ensured
    /\ HalfServerPair(ensured.pre)
    /\ ensured.pre["key.pem"] # Absent
    /\ ensured.err = "incomplete certificate setup"

(* C23 *)
\* The directory had ca.pem and ca-key.pem and neither cert.pem nor key.pem.
HadCAOnly(fs) ==
    /\ fs["ca.pem"] # Absent
    /\ fs["ca-key.pem"] # Absent
    /\ fs["cert.pem"] = Absent
    /\ fs["key.pem"] = Absent

\* The files of the CA.
CAFiles == {"ca.pem", "ca-key.pem", CACrtPath}

\* cert.pem and key.pem hold a certificate signed by the key of ca-key.pem,
\* which ca.pem certifies, and the key of that certificate.
IssuedBy(fs, ca) ==
    /\ fs["cert.pem"].kind = "pem" /\ fs["cert.pem"].Type = "CERTIFICATE"
    /\ fs["key.pem"].kind = "pem" /\ fs["key.pem"].Type = "EC PRIVATE KEY"
    /\ ca["ca.pem"].kind = "pem" /\ ca["ca-key.pem"].kind = "pem"
    /\ fs["cert.pem"].Bytes.SignedBy = ca["ca-key.pem"].Bytes.D
    /\ fs["cert.pem"].Bytes.SignedBy = ca["ca.pem"].Bytes.PublicKey
    /\ fs["cert.pem"].Bytes.PublicKey = fs["key.pem"].Bytes.D
    /\ ~fs["cert.pem"].Bytes.IsCA

\* C23: with ca.pem and ca-key.pem there and cert.pem and key.pem absent,
\* EnsureCerts leaves the CA files unchanged and, when it succeeds, has written
\* cert.pem and key.pem issued by that CA; a CA file is written only when
\* ca.pem and ca-key.pem were both absent.
C23_CAReuse ==
    Ensured =>
        /\ HadCAOnly(ensured.pre) =>
                /\ \A path \in CAFiles : files[path] = ensured.pre[path]
                /\ ensured.err = "" => IssuedBy(files, ensured.pre)
        /\ (\E path \in CAFiles : files[path] # ensured.pre[path]) =>
                (ensured.pre["ca.pem"] = Absent /\ ensured.pre["ca-key.pem"] = Absent)

\* The old CA issued the server certificate and its files are as they were.
C23_Witness ==
    /\ Ensured
    /\ HadCAOnly(ensured.pre)
    /\ ensured.err = ""
    /\ files["ca.pem"] = Pem("CERTIFICATE", OldCA.cert)
    /\ files["cert.pem"].kind = "pem"
    /\ files["cert.pem"].Bytes.SignedBy = "ca0"

\* A new CA was generated in a directory without one and issued the server
\* certificate.
C23_WitnessNewCA ==
    /\ Ensured
    /\ ensured.err = ""
    /\ \A path \in CertFiles \ {CACrtPath} : ensured.pre[path] = Absent
    /\ files["ca.pem"].kind = "pem"
    /\ files[CACrtPath] = Der(files["ca.pem"].Bytes)
    /\ IssuedBy(files, files)

(* C24 *)
\* The EnsureCerts before this state issued the server certificate.
Issued ==
    /\ Ensured
    /\ ensured.err = ""
    /\ ensured.pre["cert.pem"] = Absent
    /\ files["cert.pem"].kind = "pem"

\* The entries of a sequence, and whether none is there twice.
Entries(names) == {names[i] : i \in 1..Len(names)}
NoneTwice(names) == \A i, j \in 1..Len(names) : names[i] = names[j] => i = j

\* The names a server certificate for a base domain is to list.
ExpectedNames(base) ==
    {StarDot \o base, base, Localhost}
        \cup (IF base # Localhost THEN {StarDotStarDot \o base} ELSE {})

\* C24: after an EnsureCerts that issued the server certificate for base
\* domain B, the certificate lists exactly *.B, B, localhost, and *.*.B iff B
\* is not localhost, and lists no name twice.
C24_ExactSANs ==
    Issued =>
        /\ Entries(files["cert.pem"].Bytes.DNSNames) = ExpectedNames(generator.baseDomain)
        /\ NoneTwice(files["cert.pem"].Bytes.DNSNames)

\* The names are the expected ones, some of them possibly listed twice.
C24_ExpectedNameSet ==
    Issued =>
        Entries(files["cert.pem"].Bytes.DNSNames) = ExpectedNames(generator.baseDomain)

\* The certificate issued for the base domain localhost lists localhost twice.
C24_LocalhostTwice ==
    /\ Issued
    /\ generator.baseDomain = Localhost
    /\ files["cert.pem"].Bytes.DNSNames = <<StarDot \o Localhost, Localhost, Localhost>>

\* The certificate issued for the base domain "d" lists its four names once.
C24_WitnessOther ==
    /\ Issued
    /\ generator.baseDomain = BaseDomain
    /\ Len(files["cert.pem"].Bytes.DNSNames) = 4
    /\ NoneTwice(files["cert.pem"].Bytes.DNSNames)

(* C25 *)
\* The EnsureCerts before this state failed at the write of a file.
FailedAtWrite ==
    /\ Ensured
    /\ ensured.err \notin {"", "none"}
    /\ ensured.fail.step \in CertFiles

\* A file is absent or holds the whole of what a save writes.
AbsentOrWhole(content) == content = Absent \/ content.kind \in {"pem", "der"}

\* C25: when EnsureCerts fails at the write of a file, that file is absent
\* or completely written, never there with part of its content or none.
C25_AtomicPersistence ==
    FailedAtWrite => AbsentOrWhole(files[ensured.fail.step])

\* EnsureCerts failed writing cert.pem and left it empty.
C25_EmptyCertLeft ==
    /\ FailedAtWrite
    /\ ensured.fail.step = "cert.pem"
    /\ ensured.pre["cert.pem"] = Absent
    /\ files["cert.pem"] = Empty

\* After that the next EnsureCerts finds cert.pem without key.pem and fails
\* without repairing it.
C25_EmptyCertStays ==
    /\ Ensured
    /\ ensured.pre["cert.pem"] = Empty
    /\ ensured.pre["key.pem"] = Absent
    /\ ensured.err = "incomplete certificate setup"
    /\ files["cert.pem"] = Empty

(* C26 *)
\* The event stream of the watcher's subscription has ended or failed and
\* the context is not cancelled.
StreamLost == stream = "failed" /\ ctx = "live"

\* The watcher is subscribed to an open event stream.
Subscribed == stream = "open" /\ wtpc \in {"loop", "send"}

\* Every event the watcher made of a message has been received by the
\* consumer.
AllForwarded == msgCh = <<>> /\ Len(applied) = Len(seen)

\* C26: whenever the event stream ends or fails and the context is not
\* cancelled, the watcher subscribes again, after every failure anew, and the
\* messages a stream delivers are forwarded to the consumer as events, unless
\* the context is cancelled first.
C26_ReconnectionLiveness ==
    /\ StreamLost ~> (Subscribed \/ ctx = "cancelled")
    /\ (msgCh # <<>> /\ ctx = "live") ~> (AllForwarded \/ ctx = "cancelled")

\* After the last of the stream failures explored the watcher is subscribed
\* again, and the consumer is handling an event the watcher handed it from a
\* stream it had subscribed to after a failure.
C26_Witness ==
    /\ failures = MaxFailures
    /\ Subscribed
    /\ ctx = "live"
    /\ hev # NoEvent
    /\ hev = applied[Len(applied)]
    /\ hpre # NoReceipt
    /\ hpre.reconnected

(* C27 *)
\* A step of a stream failure or of the reconnection after it: the stream
\* fails, the watcher takes the error, waits, goes round and subscribes.
ReconnectionStep ==
    \/ stream' # stream
    \/ failures' # failures
    \/ wtpc \in {"after", "outer"} /\ wtpc' # wtpc

\* C27: an event stream failure and the reconnection after it add no route
\* and remove none, and the initial scan is not run again.
C27_ReconnectionKeepsTable ==
    [][ReconnectionStep =>
            /\ routes' = routes
            /\ pathRoutes' = pathRoutes
            /\ lastOp' = lastOp
            /\ hpc' = hpc]_vars

\* After every stream failure explored the watcher is subscribed again and
\* the table still has the route the initial scan installed, the only call
\* made on the router so far.
C27_Witness ==
    /\ failures = MaxFailures
    /\ Subscribed
    /\ lastOp.op = "discoverExisting"
    /\ routes # <<>>
    /\ applied = <<>>

(* C28 *)
\* s is an initial part of t.
IsPrefix(s, t) == Len(s) <= Len(t) /\ SubSeq(t, 1, Len(s)) = s

\* Until the initial scan has installed its routes there is no watcher and
\* no event has been read or received.
ScanFirst == hpc = "discover" => (wtpc = "off" /\ seen = <<>> /\ applied = <<>>)

\* The consumer has received the events in the order the watcher made them,
\* none left out, at most the one being handed over still to come.
InOrder == IsPrefix(applied, seen) /\ Len(seen) <= Len(applied) + 1

\* The consumer receives an event only when the handling of the one before
\* has ended, its project refresh included.
OneAtATime ==
    applied' # applied =>
        /\ hpc = "idle" /\ hev = NoEvent /\ hb = NilBackend /\ todo = <<>>
        /\ hev' = applied'[Len(applied')]

\* After the initial scan the table is changed only by the handling of the
\* event received last.
OnlyByTheHandler ==
    (hpc # "discover" /\ (routes' # routes \/ pathRoutes' # pathRoutes)) =>
        (applied # <<>> /\ hev = applied[Len(applied)] /\ applied' = applied)

\* C28: the initial scan's routes are installed before any event is
\* consumed; events are applied one at a time, in the order the watcher
\* emitted them, by the one consumer, and the handling of an event, its
\* project refresh included, is over before the next is received.
C28_OrderedSingleConsumer ==
    /\ [](ScanFirst /\ InOrder)
    /\ [][OneAtATime /\ OnlyByTheHandler]_vars

\* The start of c1 was handled with a project refresh; after it the consumer
\* received the next event, which it is handling.
C28_Witness ==
    /\ Len(applied) = 2
    /\ hev = applied[2]
    /\ handled # NoneHandled
    /\ handled.event = applied[1]
    /\ handled.outcome = "refreshed"
    /\ hpc \in {"start_get", "stop_get"}

(* C29 *)
\* The consumer is inside an inspect or list call of a handler.
InEngineCall == hpc \in {"start_get", "stop_get", "list"}

\* The watcher is handing an event to the consumer.
HandingOver == wtpc = "send"

\* C29: an engine that does not answer cannot wedge event processing: a
\* handler's inspect or list call is abandoned after a timeout, so the
\* consumer gets back to receiving events, and the watcher is not blocked
\* forever on handing an event to it.
C29_EngineCannotWedge ==
    /\ InEngineCall ~> ~InEngineCall
    /\ HandingOver ~> ~HandingOver

\* The engine has stopped answering, the consumer is in the GetBackend call
\* of a handler and the watcher is blocked handing it the next event, with
\* the context live.
C29_Wedged ==
    /\ hung
    /\ ctx = "live"
    /\ InEngineCall
    /\ HandingOver

\* With an engine that answers every call, the consumer and the watcher
\* always get on.
C29_ResponsiveEngineGetsOn ==
    /\ (InEngineCall /\ ~hung) ~> (~InEngineCall \/ hung)
    /\ (HandingOver /\ ~hung) ~> (~HandingOver \/ hung)

(* C30 *)
\* A discovery pass has returned, with the answers the engine gave it.
PassDone == lastOp.op \in {"discoverExisting", "GetProjectBackends"}

\* The containers the engine listed for the pass.
ListedIDs == {lastOp.answer.list[i] : i \in 1..Len(lastOp.answer.list)}

\* Container id has no roji.port label that is a number other than 0 and no
\* exposed or published port spec that starts with a number.
NoDetectablePort(id) ==
    LET label == Atoi(TrimSpace(containers[id].Labels.port))
    IN /\ label.err \/ label.n = 0
       /\ ParseablePorts(containers[id].ExposedPorts) = {}
       /\ ParseablePorts(containers[id].Ports) = {}

\* The listed container is one the pass has to leave out.
Skippable(id) ==
    \/ containers[id].Labels.self = TrueLabel
    \/ NoDetectablePort(id)
    \/ ~containers[id].OnNetwork
    \/ id \in lastOp.answer.gone

\* The places of the returned list that hold a backend of container id.
BackendsFor(id) ==
    {i \in 1..Len(lastOp.backends) : lastOp.backends[i].ContainerID = id}

\* C30: per-container skipping.  A pass of DiscoverBackends or
\* GetProjectBackends fails exactly when the list call failed; when it
\* succeeds, a listed container that is marked roji.self=true, has no
\* detectable port, is not attached to the shared network or could not be
\* inspected has no backend in the returned list, every other listed
\* container has exactly one, and nothing else is in the list.  When the
\* initial pass fails the process exits with an empty table, the watcher not
\* started and no request served.
C30_PerContainerSkipping ==
    /\ PassDone =>
        /\ lastOp.err = lastOp.answer.err
        /\ \A id \in ListedIDs :
                Cardinality(BackendsFor(id)) = IF Skippable(id) THEN 0 ELSE 1
        /\ \A i \in 1..Len(lastOp.backends) : lastOp.backends[i].ContainerID \in ListedIDs
    /\ (lastOp.op = "discoverExisting" /\ lastOp.err) => hpc = "exit"
    /\ hpc = "exit" =>
        /\ routes = <<>> /\ pathRoutes = <<>>
        /\ wtpc = "off"
        /\ served = NoRequest

\* A pass over three listed containers has succeeded: c1 with a port has its
\* one backend, c2 is roji itself and c3 was gone when inspected.
C30_Witness ==
    /\ PassDone
    /\ ~lastOp.err
    /\ ListedIDs = ContainerIDs
    /\ ~Skippable("c1")
    /\ containers["c2"].Labels.self = TrueLabel /\ containers["c2"].OnNetwork
    /\ lastOp.answer.gone = {"c3"}
    /\ Len(lastOp.backends) = 1
    /\ lastOp.backends[1].ContainerID = "c1"

\* A project pass has succeeded with nothing to return: c1 has no port (its
\* label is "x", only a port range is exposed) and c2 is listed although it
\* is off the shared network.
C30_WitnessNothing ==
    /\ lastOp.op = "GetProjectBackends"
    /\ ~lastOp.err
    /\ {"c1", "c2"} \subseteq ListedIDs
    /\ lastOp.answer.gone = {}
    /\ NoDetectablePort("c1")
    /\ containers["c1"].Labels.port # <<>> /\ containers["c1"].ExposedPorts # {}
    /\ ~containers["c2"].OnNetwork /\ containers["c2"].Labels.self # TrueLabel
    /\ \A id \in ListedIDs \ {"c1", "c2"} : Skippable(id) \/ BackendsFor(id) # {}
    /\ BackendsFor("c1") = {} /\ BackendsFor("c2") = {}

\* The list call of the initial pass has failed and the process has exited.
C30_WitnessListFailed ==
    /\ lastOp.op = "discoverExisting"
    /\ lastOp.answer = ListFailed
    /\ lastOp.err
    /\ hpc = "exit"

\* The servers listen after a pass in which containers were skipped.
C30_WitnessListening ==
    /\ served # NoRequest
    /\ PassDone
    /\ \E id \in ListedIDs : Skippable(id)

----------------------------------------------------------------------------
(* C31 *)

\* The stop (or die) event of container id has just been handled; the
\* engine stood still while it was, and id is not running.
StopHandled(id) ==
    /\ hpc = "idle"
    /\ handled.outcome # "none"
    /\ handled.event = [Type |-> "EventStop", ContainerID |-> id]
    /\ handled.quiet
    /\ id \notin handled.engine

\* When the event was received project p was routed with its two services,
\* w.p.d to c1 and a.p.d to c2.
TwoServicesRouted ==
    /\ RoutesTo(handled.pre, HostWP, "c1")
    /\ RoutesTo(handled.pre, HostAP, "c2")

\* No route of the table leads to container id.
NoRouteTo(id) == \A e \in TableEntries : e[3].Backend.ContainerID # id

\* The one service left of project p, container other, is routed as p.d.
SingleShape(other) ==
    /\ RoutesTo(<<routes, pathRoutes>>, HostP, other)
    /\ NoRouteUnder(<<routes, pathRoutes>>, HostWP)
    /\ NoRouteUnder(<<routes, pathRoutes>>, HostAP)

\* C31: stop handling.  After the stop or die event of a container has been
\* handled (the container not started again meanwhile, the listing of its
\* project not failing) no route leads to it, whether or not it could still
\* be inspected; and when it was one of the two routed services of project p
\* and the other still runs, the other is routed as p.d and no longer as
\* <service>.p.d.
C31_StopHandling ==
    \A id \in {"c1", "c2"} :
        (StopHandled(id) /\ handled.outcome # "list_failed") =>
            /\ NoRouteTo(id)
            /\ \A other \in {"c1", "c2"} \ {id} :
                    (TwoServicesRouted /\ other \in handled.engine) => SingleShape(other)

\* The first half on its own, for every container: the route of the stopped
\* container is gone however the handling went.
C31_RouteOfStoppedGone ==
    \A id \in ContainerIDs : StopHandled(id) => NoRouteTo(id)

\* The second half when the stopped container could be inspected and its
\* project listed.
C31_RefreshWhenInspected ==
    \A id \in {"c1", "c2"} :
        (StopHandled(id) /\ handled.outcome = "refreshed") =>
            \A other \in {"c1", "c2"} \ {id} :
                (TwoServicesRouted /\ other \in handled.engine) => SingleShape(other)

\* c1 was removed from the engine before its stop event was handled: its
\* route is gone, and c2, the one service left, is still routed as a.p.d.
C31_StaleSibling ==
    /\ StopHandled("c1")
    /\ handled.outcome = "removed"
    /\ TwoServicesRouted
    /\ "c2" \in handled.engine
    /\ NoRouteTo("c1")
    /\ RoutesTo(<<routes, pathRoutes>>, HostAP, "c2")
    /\ NoRouteUnder(<<routes, pathRoutes>>, HostP)

----------------------------------------------------------------------------
(* C32 *)

\* The ports of the backends the table routes to.
RoutedPorts == {e[3].Backend.Port : e \in TableEntries}

\* C32: port range invariant.  Every backend in the routing table has a port
\* in 1..65535, whatever integer the roji.port label of its container holds.
C32_PortRange == RoutedPorts \subseteq 1..65535

\* What the code does keep: no backend with port 0 is routed.
C32_PortNeverZero == 0 \notin RoutedPorts

\* c3 is routed with the port its label gives, 65536 or -1.
C32_OutOfRange ==
    \E e \in TableEntries :
        /\ e[3].Backend.ContainerID = "c3"
        /\ e[3].Backend.Port \in {65536, 0 - 1}
        /\ e[3].Backend.Port = Atoi(containers["c3"].Labels.port).n

----------------------------------------------------------------------------
(* C33 *)

\* The watcher goroutine has returned and closed eventCh, and handleEvents
\* has returned.
Unwound == wtpc = "closed" /\ hpc = "stopped"

\* The consumer is handling an event it received when the context was
\* already done.
HandlingLateEvent ==
    /\ hpc \in {"start_get", "stop_get", "stop_remove", "add_one", "remove_project",
                "list", "add"}
    /\ hpre.late

\* C33: cancellation unwinds the observer.  Once the context is cancelled
\* the watcher goroutine returns and closes the event channel and the
\* consumer returns, wherever they were waiting; and the handling of an
\* event received after the cancellation changes nothing in the table.
C33_CancellationUnwinds ==
    /\ (ctx = "cancelled") ~> Unwound
    /\ [][HandlingLateEvent => <<routes, pathRoutes>>' = <<routes, pathRoutes>>]_vars

\* The first half on its own: both goroutines return after a cancellation.
C33_BothReturn == (ctx = "cancelled") ~> Unwound

\* Once both have returned the table is not changed any more.
C33_QuietOnceUnwound ==
    [][Unwound => <<routes, pathRoutes>>' = <<routes, pathRoutes>>]_vars

\* The stop event of c3 was handed over after the cancellation, and its
\* handling has removed the route of c3.
C33_LateRemoval ==
    /\ ctx = "cancelled"
    /\ handled.outcome = "removed"
    /\ handled.event = [Type |-> "EventStop", ContainerID |-> "c3"]
    /\ \E e \in AllEntries(handled.pre[1], handled.pre[2]) : e[3].Backend.ContainerID = "c3"
    /\ NoRouteTo("c3")
    /\ lastOp.op = "RemoveBackend" /\ lastOp.dropped > 0
    /\ Len(applied) > 0
    /\ hpc = "stopped"

----------------------------------------------------------------------------
(* C34 *)

\* The tables a fresh DiscoverBackends pass over the containers running now
\* gives when its backends are added to an empty table.
FreshTables ==
    UNION {AddAllResults(<<<<>>, <<>>>>, r.backends) :
            r \in {x \in DiscoverBackendsResults : ~x.err}}

\* The initial scan has run and every event emitted since has been handled.
Settled == lastOp.op # "NewRouter" /\ hpc = "idle" /\ eventCh = <<>>

\* The hostnames container id can be routed under, whatever the count of
\* its project.
CanResolveTo(id) ==
    {ToLower(b.Hostname) :
        b \in UNION {inspectToBackend(Inspect(id), n) : n \in 0..Cardinality(ContainerIDs)}
                \ {NilBackend}}

\* Containers that can be routed under the same hostname are members of the
\* same compose project.
CollisionsWithinProjects ==
    \A i, j \in ContainerIDs :
        (i # j /\ CanResolveTo(i) \cap CanResolveTo(j) # {}) =>
            /\ containers[i].Labels.project # <<>>
            /\ containers[i].Labels.project = containers[j].Labels.project

\* C34 as stated: convergence with the engine.  Once the initial scan and
\* every start, stop and die event since have been handled, every engine
\* call succeeding, the table is one a fresh DiscoverBackends pass over the
\* running containers would build, also when two containers resolve to the
\* same hostname and prefix and one of them stops.
C34_Convergence == Settled => <<routes, pathRoutes>> \in FreshTables

\* Every container has a port and is not roji itself: a fresh pass leaves
\* none of them out.
AllRoutable ==
    \A id \in ContainerIDs : NilBackend \notin inspectToBackend(Inspect(id), 1)

\* What does hold: the table converges when every container is routable and
\* containers which resolve to the same hostname and prefix are members of
\* the same compose project.
C34_ConvergenceOfRoutable ==
    (Settled /\ CollisionsWithinProjects /\ AllRoutable) =>
        <<routes, pathRoutes>> \in FreshTables

\* c1 and c3 are replicas of service w of project p and were both routed
\* under w.p.d; c3 has stopped, its events are handled, and c1 is routed as
\* p.d, as a fresh pass would route it.
C34_Witness ==
    /\ Settled
    /\ CollisionsWithinProjects
    /\ containers["c3"].Labels.project = NameP
    /\ running = {"c1"}
    /\ changes > 0
    /\ handled.outcome = "refreshed"
    /\ handled.event = [Type |-> "EventStop", ContainerID |-> "c3"]
    /\ handled.pre[1] # <<>> /\ DOMAIN handled.pre[1] = {HostWP}
    /\ RoutesTo(<<routes, pathRoutes>>, HostP, "c1")
    /\ <<routes, pathRoutes>> \in FreshTables

\* c3, on its own with the label p.d, held the route p.d and has stopped:
\* c1 runs as the one service of project p and has no route.
C34_WitnessShadowed ==
    /\ Settled
    /\ running = {"c1"}
    /\ containers["c3"].Labels.host = HostP
    /\ routes = <<>> /\ pathRoutes = <<>>
    /\ \A t \in FreshTables : RoutesTo(t, HostP, "c1")

\* c1 was routed as p.d, the one service of project p; c2 of p, which has no
\* port, has started and its event is handled without a refresh: c1 is still
\* routed as p.d, where a fresh pass, counting two containers of p, routes
\* it as w.p.d.
C34_WitnessUncounted ==
    /\ Settled
    /\ running = {"c1", "c2"}
    /\ containers["c2"].ExposedPorts = {}
    /\ handled.outcome = "no_backend"
    /\ handled.event = [Type |-> "EventStart", ContainerID |-> "c2"]
    /\ RoutesTo(<<routes, pathRoutes>>, HostP, "c1")
    /\ \A t \in FreshTables : RoutesTo(t, HostWP, "c1") /\ NoRouteUnder(t, HostP)

----------------------------------------------------------------------------
(* C35 *)

\* Container id has no compose project, or GetBackend gives no backend for
\* it: it is off the shared network, is roji itself or has no port.
Projectless(id) ==
    \/ containers[id].Labels.project = <<>>
    \/ ~containers[id].OnNetwork
    \/ containers[id].Labels.self = TrueLabel
    \/ NoDetectablePort(id)

\* An event of a container of that kind is being handled.
HandlingProjectless ==
    /\ hpc \in {"start_get", "stop_get", "stop_remove", "add_one", "remove_project",
                "list", "add"}
    /\ Projectless(hev.ContainerID)

\* The routes of table <<rs, prs>> that lead to containers other than id.
RoutesOfOthers(rs, prs, id) ==
    {e[3] : e \in {x \in AllEntries(rs, prs) : x[3].Backend.ContainerID # id}}

\* In the step in which AddBackend adds the backend as a default route: the
\* default route another container holds under its hostname.
Replaced ==
    {r \in RoutesOfOthers(routes, pathRoutes, hev.ContainerID) :
        /\ hpc = "add_one" /\ hpc' = "idle"
        /\ hb.PathPrefix = <<>>
        /\ r.PathPrefix = <<>>
        /\ r.Hostname = ToLower(hb.Hostname)}

\* C35 as stated: events of containers without a project never disturb
\* other routes.  While a start or stop event of a container that has no
\* project (or is off the network, roji itself or without a port) is handled,
\* RemoveProject is not called and every route of every other container
\* stays as it is.
C35_ProjectlessEventsFrame ==
    /\ [](HandlingProjectless => hpc \notin {"remove_project", "list", "add"})
    /\ [][HandlingProjectless =>
            RoutesOfOthers(routes', pathRoutes', hev.ContainerID)
                = RoutesOfOthers(routes, pathRoutes, hev.ContainerID)]_vars

\* C35 as amended: the same, except that the default route another container
\* holds under the hostname of the started container is replaced when the
\* started container is added.
C35_ProjectlessEventsReplaceOnly ==
    /\ [](HandlingProjectless => hpc \notin {"remove_project", "list", "add"})
    /\ [][HandlingProjectless =>
            RoutesOfOthers(routes', pathRoutes', hev.ContainerID)
                = RoutesOfOthers(routes, pathRoutes, hev.ContainerID) \ Replaced]_vars

\* The stop event of c3, which has no project, has been handled: its route
\* is gone and the two services of project p are routed as they were.
C35_Witness ==
    /\ hpc = "idle"
    /\ handled.outcome = "removed"
    /\ handled.event = [Type |-> "EventStop", ContainerID |-> "c3"]
    /\ Projectless("c3")
    /\ \E e \in AllEntries(handled.pre[1], handled.pre[2]) : e[3].Backend.ContainerID = "c3"
    /\ NoRouteTo("c3")
    /\ RoutesTo(<<routes, pathRoutes>>, HostWP, "c1")
    /\ RoutesTo(<<routes, pathRoutes>>, HostAP, "c2")
    /\ RoutesTo(handled.pre, HostWP, "c1")
    /\ RoutesTo(handled.pre, HostAP, "c2")

\* The start event of c3, labelled with the hostname p.d, has been handled:
\* the route p.d, which led to c1, leads to c3 now.
C35_WitnessReplaced ==
    /\ hpc = "idle"
    /\ handled.outcome = "added"
    /\ handled.event = [Type |-> "EventStart", ContainerID |-> "c3"]
    /\ RoutesTo(handled.pre, HostP, "c1")
    /\ RoutesTo(<<routes, pathRoutes>>, HostP, "c3")
    /\ NoRouteTo("c1")

(* C36 *)
\* C36: the path of every forwarded request begins with "/", whatever the
\* prefix of the route that Lookup matched to the request path.
C36_ForwardedPathBeginsWithSlash ==
    (served # NoRequest /\ served.kind = "forward") => HasPrefix(served.path, <<47>>)

\* "/a" forwarded by the route of prefix "/": the backend is asked for "a".
C36_WitnessRootPrefix ==
    /\ served # NoRequest
    /\ served.kind = "forward"
    /\ served.route.PathPrefix = PathRoot
    /\ served.r.Path = PathA
    /\ served.path = <<97>>

\* A forwarded request whose path is its route's prefix and then a "/", or
\* whose route has no prefix, reaches the backend with a path that begins
\* with "/".
C36_SlashAtSegmentBoundary ==
    (served # NoRequest /\ served.kind = "forward") =>
        LET prefix == served.route.PathPrefix
            path   == served.r.Path
        IN (prefix = <<>> \/ path = prefix \/ HasPrefix(path, prefix \o <<47>>))
                => HasPrefix(served.path, <<47>>)

(* C37 *)
\* The routes of the table that belong to compose project p.
RoutesOfProject(p) == {e \in TableEntries : e[3].Backend.ProjectName = p}

\* The compose project of the container of the event handled last.
ProjectOfHandled == containers[handled.event.ContainerID].Labels.project

\* C37: a project refresh whose listing fails is not rolled back.  Once the
\* handling of an event has ended in a failed listing, the table holds no
\* route of the event's project, and a project without a route gets one again
\* only by the AddBackend calls of a refresh of that project whose listing
\* succeeded.
C37_FailedRefreshNotRolledBack ==
    /\ []((handled.outcome = "list_failed" /\ hpc # "add")
            => RoutesOfProject(ProjectOfHandled) = {})
    /\ [][\A p \in {NameP} :
            (hpc # "discover" /\ RoutesOfProject(p) = {} /\ RoutesOfProject(p)' # {})
                => (hpc = "add" /\ hb.ProjectName = p)]_vars

\* The start event of c2 ended in a failed listing: project p, routed as p.d
\* to the running c1 when the event came, has no route at all.
C37_Witness ==
    /\ hpc = "idle"
    /\ handled.outcome = "list_failed"
    /\ handled.event = [Type |-> "EventStart", ContainerID |-> "c2"]
    /\ {"c1", "c2"} \subseteq handled.engine
    /\ RoutesTo(handled.pre, HostP, "c1")
    /\ RoutesOfProject(NameP) = {}

\* The stop event of c2 ended in a failed listing: c1 still runs and has
\* lost its route w.p.d.
C37_WitnessStop ==
    /\ hpc = "idle"
    /\ handled.outcome = "list_failed"
    /\ handled.event = [Type |-> "EventStop", ContainerID |-> "c2"]
    /\ "c1" \in handled.engine
    /\ RoutesTo(handled.pre, HostWP, "c1")
    /\ RoutesOfProject(NameP) = {}

\* The event after a failed listing, the stop of c2, was handled with a
\* listing that succeeded: c1 is routed again.
C37_WitnessLater ==
    /\ hpc = "idle"
    /\ handled.outcome = "refreshed"
    /\ handled.pre = << << >>, << >> >>
    /\ "c1" \in handled.engine
    /\ RoutesTo(<<routes, pathRoutes>>, HostP, "c1")

(* C38 *)
\* The hostname of backend b, of a container with both compose labels and no
\* roji.host label, is the one the resolver gives for a project of n members.
ResolvedFor(b, n) ==
    LET l == containers[b.ContainerID].Labels
    IN (Unlabelled(b) /\ l.project # <<>> /\ l.service # <<>>) =>
            b.Hostname = IF n >= 2
                         THEN l.service \o <<46>> \o l.project \o <<46>> \o BaseDomain
                         ELSE l.project \o <<46>> \o BaseDomain

\* The backends of a returned list are all resolved for the number of listed
\* members of their project.
ResolvedByMembers(backends) ==
    \A i \in 1..Len(backends) :
        ResolvedFor(backends[i],
            Cardinality(ListedMembers(containers[backends[i].ContainerID].Labels.project)))

C38_WitnessPortless ==
    /\ Scanned
    /\ changes = 0
    /\ running = ContainerIDs
    /\ NoDetectablePort("c2")
    /\ \A i \in 1..Len(lastOp.backends) : lastOp.backends[i].ContainerID # "c2"
    /\ \E i \in 1..Len(lastOp.backends) :
        /\ lastOp.backends[i].ContainerID = "c1"
        /\ lastOp.backends[i].Hostname = HostWP

\* The listing of a refresh returned the two replicas, both named w.p.d.
C38_WitnessRefresh ==
    /\ hpc = "add"
    /\ Len(todo) = 2
    /\ \A i \in 1..2 : todo[i].Hostname = HostWP
    /\ {todo[i].ContainerID : i \in 1..2} = {"c1", "c3"}

(* C39 *)
\* c1 started while no stream was subscribed: it runs, the one change of the
\* engine was its start, and no message of it is or was on a stream.
StartedInGap ==
    /\ "c1" \in running
    /\ changes = 1
    /\ seen = <<>>
    /\ msgCh = <<>>

\* c1 stopped while no stream was subscribed: its start event was the only
\* one the watcher ever received, it was handled with a refresh that ended
\* while c1 still ran, and no message of the stop is on a stream.
StoppedInGap ==
    /\ "c1" \notin running
    /\ changes = 2
    /\ seen = <<[Type |-> "EventStart", ContainerID |-> "c1"]>>
    /\ msgCh = <<>>
    /\ hpc \in {"idle", "stopped"}
    /\ handled.outcome = "refreshed"
    /\ handled.event = [Type |-> "EventStart", ContainerID |-> "c1"]
    /\ "c1" \in handled.engine

\* C39: events of a time when no stream is subscribed are not replayed.  A
\* container that started then has no route and one that stopped then keeps
\* its route, also once a stream is subscribed again, for as long as no later
\* event arrives.
C39_GapEventsNotReplayed ==
    /\ StartedInGap => NoRouteTo("c1")
    /\ StoppedInGap => ~NoRouteTo("c1")

\* c1 started between the scan and the first subscription; the watcher is
\* subscribed now, and c1 has no route.
C39_Witness ==
    /\ StartedInGap
    /\ failures = 0
    /\ stream = "open"
    /\ wtpc = "loop"
    /\ hpc = "idle"
    /\ NoRouteTo("c1")

\* c1 started between a stream failure and the reconnection.
C39_WitnessReconnected ==
    /\ StartedInGap
    /\ failures > 0
    /\ stream = "open"
    /\ wtpc = "loop"
    /\ NoRouteTo("c1")

\* c1 stopped between a stream failure and the reconnection and is routed
\* still.
C39_WitnessStopped ==
    /\ StoppedInGap
    /\ failures > 0
    /\ stream = "open"
    /\ wtpc = "loop"
    /\ ~NoRouteTo("c1")

(* C40 *)
\* The directory an EnsureCerts found had ca.pem without ca-key.pem, and
\* neither cert.pem nor key.pem.
HadCACertOnly(fs) ==
    /\ fileExists(fs, "ca.pem") /\ ~fileExists(fs, "ca-key.pem")
    /\ ~fileExists(fs, "cert.pem") /\ ~fileExists(fs, "key.pem")

\* The directory an EnsureCerts found had cert.pem without key.pem.
HadServerCertOnly(fs) == fileExists(fs, "cert.pem") /\ ~fileExists(fs, "key.pem")

\* C40: a partly failed EnsureCerts does not heal.  An EnsureCerts that finds
\* ca.pem without ca-key.pem (and no server files), or cert.pem without
\* key.pem, fails with the incomplete-setup error of that pair and leaves
\* every file as it found it, so that the next EnsureCerts finds the same.
\* (MkdirAll of a directory that holds a file has nothing to create; a
\* failure drawn for it is left aside.)
C40_PartialSetupStays ==
    Ensured =>
        /\ HadServerCertOnly(ensured.pre) =>
                /\ ensured.err = "incomplete certificate setup"
                /\ files = ensured.pre
        /\ HadCACertOnly(ensured.pre) =>
                /\ ensured.fail.step # "MkdirAll" => ensured.err = "incomplete CA setup"
                /\ ensured.err # ""
                /\ files = ensured.pre

\* An EnsureCerts found the ca.pem that an earlier EnsureCerts of this
\* generator had saved before it failed to create ca-key.pem: it returned the
\* incomplete CA error and the directory is as it was.
C40_Witness ==
    /\ Ensured
    /\ HadCACertOnly(ensured.pre)
    /\ ensured.pre["ca.pem"] \in {Pem("CERTIFICATE", generateCA(id).cert) : id \in FreshCAKeys}
    /\ ensured.fail = NoFailure
    /\ ensured.err = "incomplete CA setup"
    /\ files = ensured.pre

\* The same for cert.pem, saved by an EnsureCerts that then failed to create
\* key.pem.
C40_WitnessServer ==
    /\ Ensured
    /\ HadServerCertOnly(ensured.pre)
    /\ ensured.pre["cert.pem"].kind = "pem"
    /\ ensured.fail = NoFailure
    /\ ensured.err = "incomplete certificate setup"
    /\ files = ensured.pre

====
